---- MODULE Spec2Model ----
(***************************************************************************)
(* Model of the users/posts API of bun-hono-ddd-template: the error        *)
(* taxonomy, the error-to-HTTP mapping, the post authorization service,    *)
(* the repositories and the request pipeline route -> use case ->          *)
(* repository.                                                             *)
(*                                                                         *)
(* Conventions of the translation:                                         *)
(*  - an optional value (T | undefined, T | null) is a sequence of length  *)
(*    0 or 1: None is <<>>, Some(x) is <<x>>;                              *)
(*  - a string built by a template literal is the sequence of its pieces,  *)
(*    so that "message m occurs in detail d" is decidable: a plain string  *)
(*    is a one-element sequence;                                           *)
(*  - a Result<T, E> is [isOk, value, error] with value and error being    *)
(*    optional values;                                                     *)
(*  - a Date is the reading of a logical clock.                            *)
(***************************************************************************)
EXTENDS Integers, Sequences, FiniteSets, TLC

----------------------------------------------------------------------------
(* Optional values and Results (neverthrow ok / err). *)

None == <<>>

Some(x) == <<x>>

IsSome(o) == Len(o) > 0

Range(s) == { s[i] : i \in 1..Len(s) }

ok(v) == [isOk |-> TRUE, value |-> Some(v), error |-> None]

err(e) == [isOk |-> FALSE, value |-> None, error |-> Some(e)]

isErr(r) == ~r.isOk

ValueOf(r) == r.value[1]

ErrorOf(r) == r.error[1]

----------------------------------------------------------------------------
(* Error taxonomy: domain/errors.ts *)

BaseError(type, message) ==
  [type |-> type, message |-> message, field |-> None, details |-> None,
   resource |-> None, id |-> None, conflictReason |-> None,
   requiredPermission |-> None, cause |-> None, issues |-> None]

validationError(message, field, details) ==
  [BaseError("ValidationError", message) EXCEPT !.field = field, !.details = details]

\* `${resource}${id ? ` with id '${id}'` : ""} not found`: an absent id and
\* the empty string are both falsy.
notFoundError(resource, id) ==
  [BaseError("NotFoundError",
             IF IsSome(id) /\ id[1] # ""
               THEN <<resource, " with id '", id[1], "'", " not found">>
               ELSE <<resource, " not found">>)
     EXCEPT !.resource = Some(resource), !.id = id]

conflictError(message, resource, conflictReason) ==
  [BaseError("ConflictError", message)
     EXCEPT !.resource = resource, !.conflictReason = conflictReason]

\* A variant that drops the given message, used to test that the denial
\* reason reaches the client.
unauthorizedErrorNoReason(message) ==
  BaseError("UnauthorizedError", <<"Authentication required">>)

\* the default parameter value applies when the argument is undefined
unauthorizedError(message) ==
  BaseError("UnauthorizedError",
            IF IsSome(message) THEN message[1] ELSE <<"Authentication required">>)

forbiddenError(message, requiredPermission) ==
  [BaseError("ForbiddenError", message) EXCEPT !.requiredPermission = requiredPermission]

unexpectedError(message, cause) ==
  [BaseError("UnexpectedError", message) EXCEPT !.cause = cause]

\* A ZodError: it has an issues array and no discriminant of the taxonomy.
ZodError(issues) ==
  [BaseError("ZodError", <<"zod">>) EXCEPT !.issues = Some(issues)]

----------------------------------------------------------------------------
(* HTTP mapping: types/http-error.ts and utils/http-error.ts *)

ERROR_TYPE_URNS ==
  [ValidationError   |-> "urn:app:error:validation",
   NotFoundError     |-> "urn:app:error:not-found",
   ConflictError     |-> "urn:app:error:conflict",
   UnauthorizedError |-> "urn:app:error:unauthorized",
   ForbiddenError    |-> "urn:app:error:forbidden",
   UnexpectedError   |-> "urn:app:error:unexpected",
   ZodError          |-> "urn:app:error:validation"]

\* A variant with 401 and 403 exchanged, used to test that the mapping
\* property notices a wrong status.
ERROR_STATUS_CODES_Swapped ==
  [ValidationError   |-> 400,
   NotFoundError     |-> 404,
   ConflictError     |-> 409,
   UnauthorizedError |-> 403,
   ForbiddenError    |-> 401,
   UnexpectedError   |-> 500,
   ZodError          |-> 400]

ERROR_STATUS_CODES ==
  [ValidationError   |-> 400,
   NotFoundError     |-> 404,
   ConflictError     |-> 409,
   UnauthorizedError |-> 401,
   ForbiddenError    |-> 403,
   UnexpectedError   |-> 500,
   ZodError          |-> 400]

ERROR_TITLES ==
  [ValidationError   |-> "Validation Error",
   NotFoundError     |-> "Not Found",
   ConflictError     |-> "Conflict",
   UnauthorizedError |-> "Unauthorized",
   ForbiddenError    |-> "Forbidden",
   UnexpectedError   |-> "Internal Server Error",
   ZodError          |-> "Validation Error"]

\* table[key] ?? default
Lookup(table, key, default) ==
  IF key \in DOMAIN table THEN table[key] ELSE default

zodErrorToDetails(error) ==
  [i \in 1..Len(error.issues[1]) |->
     [field   |-> error.issues[1][i].path,
      message |-> error.issues[1][i].message,
      code    |-> Some(error.issues[1][i].code)]]

GenericDetail == <<"An unexpected error occurred">>

ProblemJson == [ContentType |-> "application/problem+json"]

\* A variant that always hands out the error's own message, used to test
\* that the properties notice a leaked internal message.
DetailOfMessage(status, error) == error.message

\* the detail of a domain error: generic for a 500
DetailOf(status, error) ==
  IF status = 500 THEN GenericDetail ELSE error.message

toHttpError(error, instance) ==
  IF IsSome(error.issues)
    THEN [status  |-> 400,
          body    |-> [type     |-> ERROR_TYPE_URNS.ZodError,
                       title    |-> ERROR_TITLES.ZodError,
                       status   |-> 400,
                       detail   |-> <<"Request validation failed">>,
                       instance |-> instance,
                       errors   |-> Some(zodErrorToDetails(error))],
          headers |-> ProblemJson]
    ELSE LET status == Lookup(ERROR_STATUS_CODES, error.type, 500)
             title  == Lookup(ERROR_TITLES, error.type, "Internal Server Error")
             urn    == Lookup(ERROR_TYPE_URNS, error.type, ERROR_TYPE_URNS.UnexpectedError)
         IN  [status  |-> status,
              body    |-> [type     |-> urn,
                           title    |-> title,
                           status   |-> status,
                           detail   |-> DetailOf(status, error),
                           instance |-> instance,
                           \* errors is added only for a ValidationError
                           \* whose details are present
                           errors   |-> IF error.type = "ValidationError"
                                          THEN error.details ELSE None],
              headers |-> ProblemJson]

----------------------------------------------------------------------------
(* Post authorization service: domain/services/post-authorization-service.ts *)
(* A reader is [findById |-> function from ids to Results]; deps is          *)
(* [userRepository, postRepository].  Every service function returns its     *)
(* Result together with the repository calls it made, in order.              *)

RepoCall(repo, method, arg) == [repo |-> repo, method |-> method, arg |-> arg]

\* A variant that forgets the soft-delete mark and reports NotFoundError, used
\* to test the actor properties.
verifyUserExistsNoDeletedCheck(deps, userId) ==
  LET userResult == deps.userRepository.findById[userId]
      calls == <<RepoCall("user", "findById", userId)>>
  IN  IF isErr(userResult)
        THEN [result |-> err(BaseError("UnauthorizedError",
                               <<"Failed to verify user: ">> \o ErrorOf(userResult).message)),
              calls  |-> calls]
      ELSE IF ~IsSome(ValueOf(userResult))
        THEN [result |-> err(notFoundError("User", Some(userId))),
              calls  |-> calls]
      ELSE [result |-> ok(ValueOf(userResult)[1]), calls |-> calls]

verifyUserExists(deps, userId) ==
  LET userResult == deps.userRepository.findById[userId]
      calls == <<RepoCall("user", "findById", userId)>>
  IN  IF isErr(userResult)
        THEN [result |-> err(BaseError("UnauthorizedError",
                               <<"Failed to verify user: ">> \o ErrorOf(userResult).message)),
              calls  |-> calls]
      ELSE IF ~IsSome(ValueOf(userResult)) \/ ValueOf(userResult)[1].deletedAt # None
        THEN [result |-> err(BaseError("UnauthorizedError", <<"User not found or deleted">>)),
              calls  |-> calls]
      ELSE [result |-> ok(ValueOf(userResult)[1]), calls |-> calls]

\* A variant that forgets the soft-delete mark, used to test the post
\* properties.
verifyPostExistsNoDeletedCheck(deps, postId) ==
  LET postResult == deps.postRepository.findById[postId]
      calls == <<RepoCall("post", "findById", postId)>>
  IN  IF isErr(postResult)
        THEN [result |-> err([BaseError("NotFoundError",
                                <<"Failed to find post: ">> \o ErrorOf(postResult).message)
                               EXCEPT !.resource = Some("Post"), !.id = Some(postId)]),
              calls  |-> calls]
      ELSE IF ~IsSome(ValueOf(postResult))
        THEN [result |-> err([BaseError("NotFoundError", <<"Post not found or deleted">>)
                               EXCEPT !.resource = Some("Post"), !.id = Some(postId)]),
              calls  |-> calls]
      ELSE [result |-> ok(ValueOf(postResult)[1]), calls |-> calls]

verifyPostExists(deps, postId) ==
  LET postResult == deps.postRepository.findById[postId]
      calls == <<RepoCall("post", "findById", postId)>>
  IN  IF isErr(postResult)
        THEN [result |-> err([BaseError("NotFoundError",
                                <<"Failed to find post: ">> \o ErrorOf(postResult).message)
                               EXCEPT !.resource = Some("Post"), !.id = Some(postId)]),
              calls  |-> calls]
      ELSE IF ~IsSome(ValueOf(postResult)) \/ ValueOf(postResult)[1].deletedAt # None
        THEN [result |-> err([BaseError("NotFoundError", <<"Post not found or deleted">>)
                               EXCEPT !.resource = Some("Post"), !.id = Some(postId)]),
              calls  |-> calls]
      ELSE [result |-> ok(ValueOf(postResult)[1]), calls |-> calls]

\* A variant that grants every live actor, used to test that the ownership
\* properties notice a missing author comparison.
AuthorCheckAnyone(deps, userId, postId, reason) ==
  LET userResult == verifyUserExists(deps, userId)
  IN  IF isErr(userResult.result)
        THEN [result |-> err(ErrorOf(userResult.result)), calls |-> userResult.calls]
        ELSE LET postResult == verifyPostExists(deps, postId)
                 calls == userResult.calls \o postResult.calls
             IN  IF isErr(postResult.result)
                   THEN [result |-> err(ErrorOf(postResult.result)), calls |-> calls]
                   ELSE [result |-> ok([isAuthorized |-> TRUE, reason |-> None]),
                         calls  |-> calls]

\* The ownership decision shared by canEditPost and canDeletePost; reason is
\* the text of the denial.
AuthorCheck(deps, userId, postId, reason) ==
  LET userResult == verifyUserExists(deps, userId)
  IN  IF isErr(userResult.result)
        THEN [result |-> err(ErrorOf(userResult.result)), calls |-> userResult.calls]
        ELSE LET postResult == verifyPostExists(deps, postId)
                 calls == userResult.calls \o postResult.calls
             IN  IF isErr(postResult.result)
                   THEN [result |-> err(ErrorOf(postResult.result)), calls |-> calls]
                 ELSE IF ValueOf(postResult.result).authorId # userId
                   THEN [result |-> ok([isAuthorized |-> FALSE, reason |-> Some(reason)]),
                         calls  |-> calls]
                 ELSE [result |-> ok([isAuthorized |-> TRUE, reason |-> None]),
                       calls  |-> calls]

\* An edit permission that asks only that the actor and the post exist.
canEditPostWithoutOwnership(deps, userId, postId) ==
  AuthorCheckAnyone(deps, userId, postId, "Only the author can edit this post")

canEditPost(deps, userId, postId) ==
  AuthorCheck(deps, userId, postId, "Only the author can edit this post")

\* A delete permission that asks only that the actor and the post exist.
canDeletePostWithoutOwnership(deps, userId, postId) ==
  AuthorCheckAnyone(deps, userId, postId, "Only the author can delete this post")

canDeletePost(deps, userId, postId) ==
  AuthorCheck(deps, userId, postId, "Only the author can delete this post")

\* A variant that also looks the author up, used to test that viewing asks
\* nothing about users.
canViewPostOfLiveAuthor(deps, postId) ==
  LET postResult == verifyPostExists(deps, postId)
  IN  IF isErr(postResult.result)
        THEN [result |-> err(ErrorOf(postResult.result)), calls |-> postResult.calls]
        ELSE LET userResult == verifyUserExists(deps, ValueOf(postResult.result).authorId)
             IN  [result |-> IF isErr(userResult.result)
                               THEN ok([isAuthorized |-> FALSE,
                                        reason |-> Some("The author left")])
                               ELSE ok([isAuthorized |-> TRUE, reason |-> None]),
                  calls  |-> postResult.calls \o userResult.calls]

canViewPost(deps, postId) ==
  LET postResult == verifyPostExists(deps, postId)
  IN  IF isErr(postResult.result)
        THEN [result |-> err(ErrorOf(postResult.result)), calls |-> postResult.calls]
        ELSE [result |-> ok([isAuthorized |-> TRUE, reason |-> None]),
              calls  |-> postResult.calls]

----------------------------------------------------------------------------
(* Bounds and value domains *)

MaxUsers == 2

MaxPosts == 1

MaxRequests == 4

UserIdName == <<"u1", "u2", "u3", "u4">>

PostIdName == <<"p1", "p2", "p3">>

UserIds == { UserIdName[i] : i \in 1..MaxUsers }

PostIds == { PostIdName[i] : i \in 1..MaxPosts }

\* the request slots: two requests can be in flight at once
Procs == {1, 2}

Names == {"n1"}

Emails == {"a@x.io", "b@x.io"}

Titles == {"t1", "t2"}

Contents == {"c1"}

\* the message and the cause a failing storage engine reports
DbCause == "ECONNREFUSED"

----------------------------------------------------------------------------
(* Repositories: repositories/memory (the store semantics) and              *)
(* repositories/postgres (the same contract; every method catches a storage *)
(* failure and reports it as unexpectedError).  A repository operation      *)
(* returns [result, store]: its Result and the store it leaves.             *)

Deleted(rec) == IsSome(rec.deletedAt)

\* users.values() iterates in insertion order, which is the order of creation
UserOrder(us) == [i \in 1..Cardinality(DOMAIN us) |-> UserIdName[i]]

\* A variant that also hands out soft-deleted users, used to test the
\* soft-delete properties.
UserFindByIdIncludingDeleted(us, id) ==
  ok(IF id \in DOMAIN us THEN Some(us[id]) ELSE None)

UserFindById(us, id) ==
  LET user == IF id \in DOMAIN us THEN Some(us[id]) ELSE None
  IN  IF IsSome(user) /\ Deleted(user[1]) THEN ok(None) ELSE ok(user)

\* A lookup that returns the first user with the email, deleted or not.
UserFindByEmailIncludingDeleted(us, email) ==
  LET order == UserOrder(us)
      hits  == { i \in 1..Len(order) : us[order[i]].email = email }
  IN  IF hits = {} THEN ok(None)
      ELSE ok(Some(us[order[CHOOSE i \in hits : \A j \in hits : i <= j]]))

UserFindByEmail(us, email) ==
  LET order == UserOrder(us)
      hits  == { i \in 1..Len(order) : us[order[i]].email = email /\ ~Deleted(us[order[i]]) }
  IN  IF hits = {} THEN ok(None)
      ELSE ok(Some(us[order[CHOOSE i \in hits : \A j \in hits : i <= j]]))

DuplicateEmail(email) ==
  conflictError(<<"User with email '", email, "' already exists">>,
                Some("User"), Some("duplicate_email"))

\* A variant that inserts without looking for the email, used to test the
\* properties of concurrent creates.
UserCreateNoEmailCheck(us, input, t) ==
  LET newUser == [id            |-> UserIdName[Cardinality(DOMAIN us) + 1],
                  name          |-> input.name[1],
                  email         |-> input.email[1],
                  emailVerified |-> None,
                  image         |-> IF IsSome(input.image) THEN input.image[1] ELSE None,
                  createdAt     |-> t,
                  updatedAt     |-> t,
                  deletedAt     |-> None]
  IN  [result |-> ok(newUser), store |-> (newUser.id :> newUser) @@ us]

\* input.image ?? null
UserCreate(us, input, t) ==
  IF \E id \in DOMAIN us : us[id].email = input.email[1] /\ ~Deleted(us[id])
    THEN [result |-> err(DuplicateEmail(input.email[1])), store |-> us]
    ELSE LET newUser == [id            |-> UserIdName[Cardinality(DOMAIN us) + 1],
                         name          |-> input.name[1],
                         email         |-> input.email[1],
                         emailVerified |-> None,
                         image         |-> IF IsSome(input.image) THEN input.image[1] ELSE None,
                         createdAt     |-> t,
                         updatedAt     |-> t,
                         deletedAt     |-> None]
         IN  [result |-> ok(newUser), store |-> (newUser.id :> newUser) @@ us]

\* A variant that writes input.image ?? null, so that an update without an
\* image clears the stored one.
UserUpdateClearsImage(us, id, input, t) ==
  IF id \notin DOMAIN us \/ Deleted(us[id])
    THEN [result |-> err(notFoundError("User", Some(id))), store |-> us]
  ELSE IF /\ IsSome(input.email) /\ input.email[1] # us[id].email
          /\ \E o \in DOMAIN us : us[o].email = input.email[1] /\ ~Deleted(us[o]) /\ o # id
    THEN [result |-> err(DuplicateEmail(input.email[1])), store |-> us]
  ELSE LET updatedUser == [us[id] EXCEPT
                             !.name  = IF IsSome(input.name) THEN input.name[1] ELSE @,
                             !.email = IF IsSome(input.email) THEN input.email[1] ELSE @,
                             !.image = IF IsSome(input.image) THEN input.image[1] ELSE None,
                             !.updatedAt = t]
       IN  [result |-> ok(updatedUser), store |-> [us EXCEPT ![id] = updatedUser]]

\* A variant without the email comparison, used to test the uniqueness
\* properties.
UserUpdateNoEmailCheck(us, id, input, t) ==
  IF id \notin DOMAIN us \/ Deleted(us[id])
    THEN [result |-> err(notFoundError("User", Some(id))), store |-> us]
  ELSE LET updatedUser == [us[id] EXCEPT
                             !.name  = IF IsSome(input.name) THEN input.name[1] ELSE @,
                             !.email = IF IsSome(input.email) THEN input.email[1] ELSE @,
                             !.image = IF IsSome(input.image) THEN input.image[1] ELSE @,
                             !.updatedAt = t]
       IN  [result |-> ok(updatedUser), store |-> [us EXCEPT ![id] = updatedUser]]

UserUpdate(us, id, input, t) ==
  IF id \notin DOMAIN us \/ Deleted(us[id])
    THEN [result |-> err(notFoundError("User", Some(id))), store |-> us]
  ELSE IF /\ IsSome(input.email) /\ input.email[1] # us[id].email
          /\ \E o \in DOMAIN us : us[o].email = input.email[1] /\ ~Deleted(us[o]) /\ o # id
    THEN [result |-> err(DuplicateEmail(input.email[1])), store |-> us]
  ELSE LET updatedUser == [us[id] EXCEPT
                             !.name  = IF IsSome(input.name) THEN input.name[1] ELSE @,
                             !.email = IF IsSome(input.email) THEN input.email[1] ELSE @,
                             !.image = IF IsSome(input.image) THEN input.image[1] ELSE @,
                             !.updatedAt = t]
       IN  [result |-> ok(updatedUser), store |-> [us EXCEPT ![id] = updatedUser]]

\* A delete without the deletedAt test, which marks a deleted user again.
UserDeleteAgain(us, id, t) ==
  IF id \notin DOMAIN us
    THEN [result |-> err(notFoundError("User", Some(id))), store |-> us]
    ELSE [result |-> ok("void"), store |-> [us EXCEPT ![id].deletedAt = Some(t)]]

UserDelete(us, id, t) ==
  IF id \notin DOMAIN us \/ Deleted(us[id])
    THEN [result |-> err(notFoundError("User", Some(id))), store |-> us]
    ELSE [result |-> ok("void"), store |-> [us EXCEPT ![id].deletedAt = Some(t)]]

PostFindById(ps, id) ==
  LET post == IF id \in DOMAIN ps THEN Some(ps[id]) ELSE None
  IN  IF IsSome(post) /\ Deleted(post[1]) THEN ok(None) ELSE ok(post)

\* A variant that stores title and content in each other's place, used to
\* test the round-trip property.
PostCreateSwapped(ps, input, t) ==
  LET newPost == [id        |-> PostIdName[Cardinality(DOMAIN ps) + 1],
                  title     |-> input.content[1],
                  content   |-> input.title[1],
                  authorId  |-> input.authorId[1],
                  createdAt |-> t,
                  updatedAt |-> t,
                  deletedAt |-> None]
  IN  [result |-> ok(newPost), store |-> (newPost.id :> newPost) @@ ps]

PostCreate(ps, input, t) ==
  LET newPost == [id        |-> PostIdName[Cardinality(DOMAIN ps) + 1],
                  title     |-> input.title[1],
                  content   |-> input.content[1],
                  authorId  |-> input.authorId[1],
                  createdAt |-> t,
                  updatedAt |-> t,
                  deletedAt |-> None]
  IN  [result |-> ok(newPost), store |-> (newPost.id :> newPost) @@ ps]

\* An update that stores the input as the whole row, so that a field the
\* input does not supply is emptied.
PostUpdateReplacing(ps, id, input, t) ==
  IF id \notin DOMAIN ps \/ Deleted(ps[id])
    THEN [result |-> err(notFoundError("Post", Some(id))), store |-> ps]
    ELSE LET updatedPost == [ps[id] EXCEPT
                               !.title   = IF IsSome(input.title) THEN input.title[1] ELSE "",
                               !.content = IF IsSome(input.content) THEN input.content[1] ELSE "",
                               !.updatedAt = t]
         IN  [result |-> ok(updatedPost), store |-> [ps EXCEPT ![id] = updatedPost]]

\* A variant that also updates soft-deleted posts, used to test the update
\* properties.
PostUpdateIgnoringDeleted(ps, id, input, t) ==
  IF id \notin DOMAIN ps
    THEN [result |-> err(notFoundError("Post", Some(id))), store |-> ps]
    ELSE LET updatedPost == [ps[id] EXCEPT
                               !.title   = IF IsSome(input.title) THEN input.title[1] ELSE @,
                               !.content = IF IsSome(input.content) THEN input.content[1] ELSE @,
                               !.updatedAt = t]
         IN  [result |-> ok(updatedPost), store |-> [ps EXCEPT ![id] = updatedPost]]

PostUpdate(ps, id, input, t) ==
  IF id \notin DOMAIN ps \/ Deleted(ps[id])
    THEN [result |-> err(notFoundError("Post", Some(id))), store |-> ps]
    ELSE LET updatedPost == [ps[id] EXCEPT
                               !.title   = IF IsSome(input.title) THEN input.title[1] ELSE @,
                               !.content = IF IsSome(input.content) THEN input.content[1] ELSE @,
                               !.updatedAt = t]
         IN  [result |-> ok(updatedPost), store |-> [ps EXCEPT ![id] = updatedPost]]

\* A delete without the deletedAt test, which marks a deleted post again.
PostDeleteAgain(ps, id, t) ==
  IF id \notin DOMAIN ps
    THEN [result |-> err(notFoundError("Post", Some(id))), store |-> ps]
    ELSE [result |-> ok("void"), store |-> [ps EXCEPT ![id].deletedAt = Some(t)]]

PostDelete(ps, id, t) ==
  IF id \notin DOMAIN ps \/ Deleted(ps[id])
    THEN [result |-> err(notFoundError("Post", Some(id))), store |-> ps]
    ELSE [result |-> ok("void"), store |-> [ps EXCEPT ![id].deletedAt = Some(t)]]

\* posts.values() iterates in insertion order, which is the order of creation
PostOrder(ps) == [i \in 1..Cardinality(DOMAIN ps) |-> PostIdName[i]]

\* Array.prototype.slice(start, end): a negative index counts from the end
Slice(seq, start, end) ==
  LET len  == Len(seq)
      from == IF start < 0 THEN (IF len + start < 0 THEN 0 ELSE len + start)
              ELSE IF start > len THEN len ELSE start
      to   == IF end < 0 THEN (IF len + end < 0 THEN 0 ELSE len + end)
              ELSE IF end > len THEN len ELSE end
  IN  IF to <= from THEN <<>> ELSE SubSeq(seq, from + 1, to)

UserFindAll(us, options) ==
  LET order == UserOrder(us)
      all == [i \in 1..Len(order) |-> us[order[i]]]
      NotDeleted(user) == ~Deleted(user)
      activeUsers == SelectSeq(all, NotDeleted)
  IN  ok([items |-> Slice(activeUsers, options.offset, options.offset + options.limit),
          total |-> Len(activeUsers)])

\* if (options.authorId): undefined and the empty string do not filter
PostFindAll(ps, options) ==
  LET order == PostOrder(ps)
      all == [i \in 1..Len(order) |-> ps[order[i]]]
      NotDeleted(post) == ~Deleted(post)
      ByAuthor(post) == post.authorId = options.authorId[1]
      activePosts == IF IsSome(options.authorId) /\ options.authorId[1] # ""
                       THEN SelectSeq(SelectSeq(all, NotDeleted), ByAuthor)
                       ELSE SelectSeq(all, NotDeleted)
  IN  ok([items |-> Slice(activePosts, options.offset, options.offset + options.limit),
          total |-> Len(activePosts)])

\* The catch block of a postgres repository method: the store is untouched.
StorageFailure(message, store) ==
  [result |-> err(unexpectedError(<<message>>, Some(DbCause))), store |-> store]

----------------------------------------------------------------------------
(* Validation stage: usecases/*/input.ts.  Raw input is one record with an  *)
(* optional value per field a route can supply; a schema reads its own      *)
(* fields.  A zod object schema strips unknown keys and collects the issues *)
(* of all its fields.                                                        *)

NoInput ==
  [id |-> None, userId |-> None, authorId |-> None, name |-> None,
   email |-> None, image |-> None, title |-> None, content |-> None]

LongString == "x{256}"

LongUrl == "https://x{256}"

\* string length, as far as the schemas can tell strings apart
StrLen(s) ==
  IF s = "" THEN 0 ELSE IF s = LongString THEN 256 ELSE IF s = LongUrl THEN 264 ELSE 2

IsEmail(s) == s \in Emails

IsUrl(s) == s \in {"https://img", LongUrl}

Issue(path, message, code) == [path |-> path, message |-> message, code |-> code]

\* z.string().min(1, minMsg).max(maxLen, maxMsg); maxLen = 0 for no max
StringIssues(path, v, minMsg, maxLen, maxMsg) ==
  IF ~IsSome(v)
    THEN <<Issue(path, "Invalid input: expected string, received undefined", "invalid_type")>>
    ELSE (IF StrLen(v[1]) < 1 THEN <<Issue(path, minMsg, "too_small")>> ELSE <<>>)
         \o (IF maxLen > 0 /\ StrLen(v[1]) > maxLen
               THEN <<Issue(path, maxMsg, "too_big")>> ELSE <<>>)

OptionalStringIssues(path, v, minMsg, maxLen, maxMsg) ==
  IF ~IsSome(v) THEN <<>> ELSE StringIssues(path, v, minMsg, maxLen, maxMsg)

\* z.email(msg)
EmailIssues(path, v) ==
  IF ~IsSome(v)
    THEN <<Issue(path, "email must be a valid email address", "invalid_type")>>
  ELSE IF ~IsEmail(v[1])
    THEN <<Issue(path, "email must be a valid email address", "invalid_format")>>
  ELSE <<>>

OptionalEmailIssues(path, v) ==
  IF ~IsSome(v) THEN <<>> ELSE EmailIssues(path, v)

\* z.url(msg).max(255).optional().nullable(): v is None (absent),
\* Some(None) (null) or Some(Some(s))
ImageIssues(path, v) ==
  IF ~IsSome(v) \/ ~IsSome(v[1]) THEN <<>>
  ELSE (IF ~IsUrl(v[1][1])
          THEN <<Issue(path, "image must be a valid URL", "invalid_format")>> ELSE <<>>)
       \o (IF StrLen(v[1][1]) > 255
             THEN <<Issue(path, "Too big: expected string to have <=255 characters",
                          "too_big")>>
             ELSE <<>>)

\* path.join(sep): the elements with the separator between them
RECURSIVE Join(_, _)
Join(path, sep) ==
  IF Len(path) = 0 THEN <<>>
  ELSE IF Len(path) = 1 THEN <<path[1]>>
  ELSE <<path[1], sep>> \o Join(Tail(path), sep)

\* the mapping every parse function applies to result.error.issues
IssuesToDetails(issues) ==
  [i \in 1..Len(issues) |->
     [field |-> Join(issues[i].path, "."), message |-> issues[i].message,
      code |-> Some(issues[i].code)]]

\* a parse that reports its first issue only
ParseResultFirstOnly(name, issues, data) ==
  IF Len(issues) > 0
    THEN err(validationError(<<name>>, None, Some(IssuesToDetails(<<issues[1]>>))))
    ELSE ok(data)

ParseResult(name, issues, data) ==
  IF Len(issues) > 0
    THEN err(validationError(<<name>>, None, Some(IssuesToDetails(issues))))
    ELSE ok(data)

\* a refinement that accepts every object
AtLeastOneFieldNever(path, fieldIssues, fields) == <<>>

\* .refine(data => Object.keys(data).length > 0): evaluated on the parsed
\* object when its fields are valid
AtLeastOneField(path, fieldIssues, fields) ==
  IF Len(fieldIssues) = 0 /\ \A i \in 1..Len(fields) : ~IsSome(fields[i])
    THEN <<Issue(path, "At least one field must be provided for update", "custom")>>
    ELSE <<>>

IdIssues(data) == StringIssues(<<"id">>, data.id, "id is required", 0, "")

UserIdIssues(data) == StringIssues(<<"userId">>, data.userId, "userId is required", 0, "")

parseCreateUserInput(data) ==
  ParseResult("Invalid create-user input",
    StringIssues(<<"name">>, data.name, "name is required", 255,
                 "name must be at most 255 characters")
      \o EmailIssues(<<"email">>, data.email)
      \o ImageIssues(<<"image">>, data.image),
    [NoInput EXCEPT !.name = data.name, !.email = data.email, !.image = data.image])

UpdateUserFieldIssues(data) ==
  OptionalStringIssues(<<"data", "name">>, data.name, "name cannot be empty", 255,
                       "name must be at most 255 characters")
    \o OptionalEmailIssues(<<"data", "email">>, data.email)
    \o ImageIssues(<<"data", "image">>, data.image)

parsePatchUserInput(data) ==
  ParseResult("Invalid patch-user input",
    IdIssues(data) \o UpdateUserFieldIssues(data)
      \o AtLeastOneField(<<"data">>, UpdateUserFieldIssues(data),
                         <<data.name, data.email, data.image>>),
    [NoInput EXCEPT !.id = data.id, !.name = data.name, !.email = data.email,
                    !.image = data.image])

parsePutUserInput(data) ==
  ParseResult("Invalid put-user input",
    IdIssues(data)
      \o StringIssues(<<"data", "name">>, data.name, "name is required", 255,
                      "name must be at most 255 characters")
      \o EmailIssues(<<"data", "email">>, data.email)
      \o ImageIssues(<<"data", "image">>, data.image),
    [NoInput EXCEPT !.id = data.id, !.name = data.name, !.email = data.email,
                    !.image = data.image])

parseDeleteUserInput(data) ==
  ParseResult("Invalid delete-user input", IdIssues(data), [NoInput EXCEPT !.id = data.id])

parseGetUserInput(data) ==
  ParseResult("Invalid get-user input", IdIssues(data), [NoInput EXCEPT !.id = data.id])

parseCreatePostInput(data) ==
  ParseResult("Invalid create-post input",
    StringIssues(<<"title">>, data.title, "title is required", 255,
                 "title must be at most 255 characters")
      \o StringIssues(<<"content">>, data.content, "content is required", 0, "")
      \o StringIssues(<<"authorId">>, data.authorId, "authorId is required", 0, ""),
    [NoInput EXCEPT !.title = data.title, !.content = data.content,
                    !.authorId = data.authorId])

UpdatePostFieldIssues(data) ==
  OptionalStringIssues(<<"data", "title">>, data.title, "title cannot be empty", 255,
                       "title must be at most 255 characters")
    \o OptionalStringIssues(<<"data", "content">>, data.content, "content cannot be empty", 0, "")

parsePatchPostInput(data) ==
  ParseResult("Invalid patch-post input",
    IdIssues(data) \o UserIdIssues(data) \o UpdatePostFieldIssues(data)
      \o AtLeastOneField(<<"data">>, UpdatePostFieldIssues(data),
                         <<data.title, data.content>>),
    [NoInput EXCEPT !.id = data.id, !.userId = data.userId,
                    !.title = data.title, !.content = data.content])

parsePutPostInput(data) ==
  ParseResult("Invalid put-post input",
    IdIssues(data) \o UserIdIssues(data)
      \o StringIssues(<<"data", "title">>, data.title, "title is required", 255,
                      "title must be at most 255 characters")
      \o StringIssues(<<"data", "content">>, data.content, "content is required", 0, ""),
    [NoInput EXCEPT !.id = data.id, !.userId = data.userId,
                    !.title = data.title, !.content = data.content])

parseDeletePostInput(data) ==
  ParseResult("Invalid delete-post input", IdIssues(data) \o UserIdIssues(data),
              [NoInput EXCEPT !.id = data.id, !.userId = data.userId])

parseGetPostInput(data) ==
  ParseResult("Invalid get-post input", IdIssues(data), [NoInput EXCEPT !.id = data.id])

----------------------------------------------------------------------------
(* User authentication service: domain/services/user-authentication-service.ts *)

validateEmailFormat(email) ==
  IF email = "" THEN err(BaseError("ValidationError", <<"Email is required">>))
  ELSE IF ~IsEmail(email) THEN err(BaseError("ValidationError", <<"Invalid email format">>))
  ELSE IF StrLen(email) > 255
    THEN err(BaseError("ValidationError", <<"Email is too long (max 255 characters)">>))
  ELSE ok("void")

isEmailAvailable(deps, email) ==
  IF isErr(validateEmailFormat(email))
    THEN [result |-> err(ErrorOf(validateEmailFormat(email))), calls |-> <<>>]
    ELSE LET userResult == deps.userRepository.findByEmail[email]
             calls == <<RepoCall("user", "findByEmail", email)>>
         IN  IF isErr(userResult)
               THEN [result |-> err(BaseError("ValidationError",
                                      <<"Failed to check email availability: ">>
                                        \o ErrorOf(userResult).message)),
                     calls  |-> calls]
               ELSE [result |-> ok(~IsSome(ValueOf(userResult))
                                   \/ ValueOf(userResult)[1].deletedAt # None),
                     calls  |-> calls]

----------------------------------------------------------------------------
(* Use cases: usecases/*/usecase.ts.  The decisions a use case takes between *)
(* two awaits are operators; the awaits are the steps of a request below.    *)

Proceed == ok("proceed")

\* update-post / delete-post: what the use case does with the authorization
\* result; fallback is the message used when the denial carries no reason
\* (a variant that lets a denial through, used to test the ordering property)
AuthorizationOutcomeIgnoreDenial(authResult, fallback) ==
  IF isErr(authResult) THEN err(ErrorOf(authResult)) ELSE Proceed

AuthorizationOutcome(authResult, fallback) ==
  IF isErr(authResult) THEN err(ErrorOf(authResult))
  ELSE IF ~ValueOf(authResult).isAuthorized
    THEN err(unauthorizedError(Some(
               IF IsSome(ValueOf(authResult).reason)
                 THEN <<ValueOf(authResult).reason[1]>> ELSE <<fallback>>)))
  ELSE Proceed

\* A variant that leaves the duplicate check to the repository, used to test
\* the fail-fast property.
AvailabilityOutcomeLeftToRepository(availabilityResult, email) ==
  IF isErr(availabilityResult) THEN err(ErrorOf(availabilityResult)) ELSE Proceed

\* create-user: what the use case does with the availability result
AvailabilityOutcome(availabilityResult, email) ==
  IF isErr(availabilityResult) THEN err(ErrorOf(availabilityResult))
  ELSE IF ~ValueOf(availabilityResult) THEN err(DuplicateEmail(email))
  ELSE Proceed

\* a use case that takes any lookup that did not fail for an author
AuthorOutcomeAnyone(authorResult, authorId) ==
  IF isErr(authorResult) THEN err(ErrorOf(authorResult)) ELSE Proceed

\* create-post: what the use case does with the author lookup
AuthorOutcome(authorResult, authorId) ==
  IF isErr(authorResult) THEN err(ErrorOf(authorResult))
  ELSE IF ~IsSome(ValueOf(authorResult)) THEN err(notFoundError("User", Some(authorId)))
  ELSE Proceed

\* a get that hands the lookup's value on as it is, null included
GetOutcomeNull(result, resource, id) ==
  IF isErr(result) THEN err(ErrorOf(result)) ELSE ok(ValueOf(result))

\* get-user / get-post: a null lookup becomes NotFoundError
GetOutcome(result, resource, id) ==
  IF isErr(result) THEN err(ErrorOf(result))
  ELSE IF ~IsSome(ValueOf(result)) THEN err(notFoundError(resource, Some(id)))
  ELSE ok(ValueOf(result)[1])

----------------------------------------------------------------------------
(* State *)

VARIABLES
  users,     \* the user store: id -> User
  posts,     \* the post store: id -> Post
  now,       \* the clock new Date() reads
  backend,   \* "memory" or "postgres": which repositories the routes were given
  req,       \* per request slot: the request in flight and what it has done
  started,   \* number of requests received so far
  http,      \* toHttpError applied to a pair of errors
  authz,     \* the authorization service called with stub repositories
  direct,    \* a function called on its own: its arguments and what it returned
  configuredLogLevel,  \* the logger's level, null until configured
  console    \* what the logger has written: the console method and the level

vars == <<users, posts, now, backend, req, started, http, authz, direct,
          configuredLogLevel, console>>

UserOps == {"createUser", "patchUser", "putUser", "deleteUser", "getUser"}

PostOps == {"createPost", "patchPost", "putPost", "deletePost", "getPost"}

Ops == UserOps \cup PostOps

AuthorizedOps == {"patchPost", "putPost", "deletePost"}

CreateOps == {"createUser", "createPost"}

MutatingOps == {"patchUser", "putUser", "deleteUser", "patchPost", "putPost", "deletePost"}

IdleReq ==
  [pc |-> "Idle", op |-> "none", raw |-> NoInput, input |-> None,
   userLookup |-> None, postLookup |-> None, auth |-> None,
   result |-> None, response |-> None, trace |-> <<>>, calls |-> <<>>]

\* The bodies the routes can receive: every well-formed body over the value
\* domains, and the empty body.  :id is a path parameter, so it is never
\* empty; X-User-Id || "" and body.userId can be.
RawInputs(op) ==
  CASE op = "createUser" ->
         { [NoInput EXCEPT !.name = Some(n), !.email = Some(e)] : n \in Names, e \in Emails }
           \cup {NoInput}
    [] op = "patchUser" ->
         { [NoInput EXCEPT !.id = Some(i), !.email = e] :
             i \in UserIds, e \in {None} \cup {Some(x) : x \in Emails} }
    [] op = "putUser" ->
         { [NoInput EXCEPT !.id = Some(i), !.name = Some(n), !.email = Some(e)] :
             i \in UserIds, n \in Names, e \in Emails }
    [] op \in {"deleteUser", "getUser"} ->
         { [NoInput EXCEPT !.id = Some(i)] : i \in UserIds }
    [] op = "createPost" ->
         { [NoInput EXCEPT !.title = Some(t), !.content = Some(c), !.authorId = Some(a)] :
             t \in Titles, c \in Contents, a \in UserIds }
           \cup {NoInput}
    [] op = "patchPost" ->
         { [NoInput EXCEPT !.id = Some(i), !.userId = Some(u), !.title = t] :
             i \in PostIds, u \in UserIds, t \in {None} \cup {Some(x) : x \in Titles} }
    [] op = "putPost" ->
         { [NoInput EXCEPT !.id = Some(i), !.userId = Some(u), !.title = Some(t),
                           !.content = Some(c)] :
             i \in PostIds, u \in UserIds, t \in Titles, c \in Contents }
    [] op = "deletePost" ->
         { [NoInput EXCEPT !.id = Some(i), !.userId = Some(u)] :
             i \in PostIds, u \in UserIds \cup {""} }
    [] op = "getPost" ->
         { [NoInput EXCEPT !.id = Some(i)] : i \in PostIds }

Parse(op, raw) ==
  CASE op = "createUser" -> parseCreateUserInput(raw)
    [] op = "patchUser"  -> parsePatchUserInput(raw)
    [] op = "putUser"    -> parsePutUserInput(raw)
    [] op = "deleteUser" -> parseDeleteUserInput(raw)
    [] op = "getUser"    -> parseGetUserInput(raw)
    [] op = "createPost" -> parseCreatePostInput(raw)
    [] op = "patchPost"  -> parsePatchPostInput(raw)
    [] op = "putPost"    -> parsePutPostInput(raw)
    [] op = "deletePost" -> parseDeletePostInput(raw)
    [] op = "getPost"    -> parseGetPostInput(raw)

\* c.req.path
RequestPath(op, raw) ==
  IF op = "createUser" THEN <<"/users">>
  ELSE IF op = "createPost" THEN <<"/posts">>
  ELSE IF op \in UserOps THEN <<"/users/", raw.id[1]>>
  ELSE <<"/posts/", raw.id[1]>>

\* sendHttpError: c.json(body, status, headers)
ErrorResponse(error, path) ==
  LET e == toHttpError(error, Some(path))
  IN  [status |-> e.status, problem |-> Some(e.body), headers |-> Some(e.headers),
       data |-> None]

SuccessResponse(status, data) ==
  [status |-> status, problem |-> None, headers |-> None, data |-> data]

\* the request ends with an error: the route sends toHttpError of it
Failed(rq, error) ==
  [rq EXCEPT !.pc = "Failed", !.trace = Append(@, "Failed"),
             !.result = Some(err(error)),
             !.response = Some(ErrorResponse(error, RequestPath(rq.op, rq.raw)))]

Entered(rq, stage) == [rq EXCEPT !.pc = stage, !.trace = Append(@, stage)]

InFlight(op) ==
  Cardinality({ q \in Procs : req[q].op = op /\ req[q].pc \notin {"Idle", "Done", "Failed"} })

\* whether a repository call of this step meets a storage failure
FailChoices == IF backend = "postgres" THEN {FALSE, TRUE} ELSE {FALSE}

----------------------------------------------------------------------------
(* Steps of a request: routes/users.ts, routes/posts.ts and the use cases *)

\* after a successful parse the route calls the use case, whose first stage
\* depends on the operation
FirstStage(op) ==
  IF op \in AuthorizedOps THEN "AuthUser"
  ELSE IF op \in CreateOps THEN "PreCheck"
  ELSE "Executing"

\* what the route does with the parse Result
Validated(rq) ==
  LET r == Parse(rq.op, rq.raw)
  IN  IF isErr(r) THEN Failed(rq, ErrorOf(r))
      ELSE [Entered(rq, FirstStage(rq.op)) EXCEPT !.input = Some(ValueOf(r))]

\* A request for one of the operations ops arrives, takes the first free slot
\* and the route parses its raw input, which is synchronous.  Ids are handed out from
\* a finite pool, so a create is accepted only while the pool can serve it.
Begin(p, ops) ==
  /\ req[p].pc = "Idle"
  /\ \A q \in Procs : q < p => req[q].pc # "Idle"
  /\ started < MaxRequests
  /\ \E op \in ops : \E raw \in RawInputs(op) :
       /\ op = "createUser" => Cardinality(DOMAIN users) + InFlight("createUser") < MaxUsers
       /\ op = "createPost" => Cardinality(DOMAIN posts) + InFlight("createPost") < MaxPosts
       /\ req' = [req EXCEPT ![p] =
                    Validated([Entered(IdleReq, "Validating") EXCEPT !.op = op, !.raw = raw])]
  /\ started' = started + 1
  /\ UNCHANGED <<users, posts, now, backend, http, authz, direct, configuredLogLevel, console>>

Start(p) == Begin(p, Ops)

CanDo(op, deps, userId, postId) ==
  IF op = "deletePost" THEN canDeletePost(deps, userId, postId)
                       ELSE canEditPost(deps, userId, postId)

Fallback(op) ==
  IF op = "deletePost" THEN "You are not authorized to delete this post"
                       ELSE "You are not authorized to edit this post"

\* canEditPost / canDeletePost up to its first await: the user lookup
AuthUser(p) ==
  /\ req[p].pc = "AuthUser"
  /\ \E fail \in FailChoices :
       LET rq     == req[p]
           userId == rq.input[1].userId[1]
           lookup == IF fail THEN StorageFailure("Failed to find user by id", users).result
                             ELSE UserFindById(users, userId)
           deps   == [userRepository |-> [findById |-> (userId :> lookup)],
                      postRepository |-> [findById |-> <<>>]]
           v      == verifyUserExists(deps, userId)
       IN  req' = [req EXCEPT ![p] =
             IF isErr(v.result)
               THEN LET auth == CanDo(rq.op, deps, userId, rq.input[1].id[1])
                    IN  [Failed(rq, ErrorOf(AuthorizationOutcome(auth.result, Fallback(rq.op))))
                           EXCEPT !.userLookup = Some(lookup), !.auth = Some(auth.result),
                                  !.calls = auth.calls]
               ELSE [Entered(rq, "AuthPost") EXCEPT !.userLookup = Some(lookup),
                                                     !.calls = v.calls]]
  /\ UNCHANGED <<users, posts, now, backend, started, http, authz, direct, configuredLogLevel, console>>

\* the rest of canEditPost / canDeletePost: the post lookup and the ownership
\* decision, then the use case's reading of the authorization result
AuthPost(p) ==
  /\ req[p].pc = "AuthPost"
  /\ \E fail \in FailChoices :
       LET rq      == req[p]
           userId  == rq.input[1].userId[1]
           postId  == rq.input[1].id[1]
           lookup  == IF fail THEN StorageFailure("Failed to find post by id", posts).result
                              ELSE PostFindById(posts, postId)
           deps    == [userRepository |-> [findById |-> (userId :> rq.userLookup[1])],
                       postRepository |-> [findById |-> (postId :> lookup)]]
           auth    == CanDo(rq.op, deps, userId, postId)
           outcome == AuthorizationOutcome(auth.result, Fallback(rq.op))
       IN  req' = [req EXCEPT ![p] =
             [(IF isErr(outcome) THEN Failed(rq, ErrorOf(outcome)) ELSE Entered(rq, "Executing"))
                EXCEPT !.postLookup = Some(lookup), !.auth = Some(auth.result),
                       !.calls = auth.calls]]
  /\ UNCHANGED <<users, posts, now, backend, started, http, authz, direct, configuredLogLevel, console>>

\* create-user: isEmailAvailable; create-post: the author lookup
PreCheck(p) ==
  /\ req[p].pc = "PreCheck"
  /\ \E fail \in FailChoices :
       LET rq == req[p]
           in == rq.input[1]
       IN  IF rq.op = "createUser"
             THEN LET email  == in.email[1]
                      lookup == IF fail
                                  THEN StorageFailure("Failed to find user by email", users).result
                                  ELSE UserFindByEmail(users, email)
                      avail  == isEmailAvailable(
                                  [userRepository |-> [findByEmail |-> (email :> lookup)]], email)
                      outcome == AvailabilityOutcome(avail.result, email)
                  IN  req' = [req EXCEPT ![p] =
                        [(IF isErr(outcome) THEN Failed(rq, ErrorOf(outcome))
                                            ELSE Entered(rq, "Executing"))
                           EXCEPT !.userLookup = Some(lookup), !.calls = avail.calls]]
             ELSE LET authorId == in.authorId[1]
                      lookup   == IF fail
                                    THEN StorageFailure("Failed to find user by id", users).result
                                    ELSE UserFindById(users, authorId)
                      outcome  == AuthorOutcome(lookup, authorId)
                  IN  req' = [req EXCEPT ![p] =
                        [(IF isErr(outcome) THEN Failed(rq, ErrorOf(outcome))
                                            ELSE Entered(rq, "Executing"))
                           EXCEPT !.userLookup = Some(lookup),
                                  !.calls = <<RepoCall("user", "findById", authorId)>>]]
  /\ UNCHANGED <<users, posts, now, backend, started, http, authz, direct, configuredLogLevel, console>>

\* the one repository operation of the Executing stage
RepoExec(op, in, us, ps, t) ==
  CASE op = "createUser" -> UserCreate(us, in, t)
    [] op \in {"patchUser", "putUser"} -> UserUpdate(us, in.id[1], in, t)
    [] op = "deleteUser" -> UserDelete(us, in.id[1], t)
    [] op = "getUser"    -> [result |-> UserFindById(us, in.id[1]), store |-> us]
    [] op = "createPost" -> PostCreate(ps, in, t)
    [] op \in {"patchPost", "putPost"} -> PostUpdate(ps, in.id[1], in, t)
    [] op = "deletePost" -> PostDelete(ps, in.id[1], t)
    [] op = "getPost"    -> [result |-> PostFindById(ps, in.id[1]), store |-> ps]

ExecMethod(op) ==
  CASE op \in CreateOps -> "create"
    [] op \in {"patchUser", "putUser", "patchPost", "putPost"} -> "update"
    [] op \in {"deleteUser", "deletePost"} -> "delete"
    [] op \in {"getUser", "getPost"} -> "findById"

ExecRepo(op) == IF op \in UserOps THEN "user" ELSE "post"

\* the message of the catch block of the postgres method
ExecFailureMessage(op) ==
  CASE op = "createUser" -> "Failed to create user"
    [] op \in {"patchUser", "putUser"} -> "Failed to update user"
    [] op = "deleteUser" -> "Failed to delete user"
    [] op = "getUser"    -> "Failed to find user by id"
    [] op = "createPost" -> "Failed to create post"
    [] op \in {"patchPost", "putPost"} -> "Failed to update post"
    [] op = "deletePost" -> "Failed to delete post"
    [] op = "getPost"    -> "Failed to find post by id"

\* what the use case returns for the repository's Result
UseCaseResult(op, in, result) ==
  IF op = "getUser" THEN GetOutcome(result, "User", in.id[1])
  ELSE IF op = "getPost" THEN GetOutcome(result, "Post", in.id[1])
  ELSE IF isErr(result) THEN err(ErrorOf(result))
  ELSE IF op \in {"deleteUser", "deletePost"} THEN ok([success |-> TRUE])
  ELSE ok(ValueOf(result))

SuccessStatus(op) ==
  IF op \in CreateOps THEN 201
  ELSE IF op \in {"deleteUser", "deletePost"} THEN 204
  ELSE 200

\* the Executing stage: one repository call, then the response
Execute(p) ==
  /\ req[p].pc = "Executing"
  /\ \E fail \in FailChoices :
       LET rq    == req[p]
           in    == rq.input[1]
           t     == now + 1
           store == IF rq.op \in UserOps THEN users ELSE posts
           out   == IF fail THEN StorageFailure(ExecFailureMessage(rq.op), store)
                            ELSE RepoExec(rq.op, in, users, posts, t)
           res   == UseCaseResult(rq.op, in, out.result)
           call  == RepoCall(ExecRepo(rq.op), ExecMethod(rq.op),
                             IF rq.op \in CreateOps THEN "input" ELSE in.id[1])
       IN  /\ req' = [req EXCEPT ![p] =
                 [(IF isErr(res)
                     THEN Failed(rq, ErrorOf(res))
                     ELSE [Entered(rq, "Done") EXCEPT
                             !.result = Some(res),
                             !.response = Some(SuccessResponse(SuccessStatus(rq.op),
                                                 IF SuccessStatus(rq.op) = 204
                                                   THEN None ELSE Some(ValueOf(res))))])
                    EXCEPT !.calls = Append(@, call)]]
           /\ users' = IF rq.op \in UserOps THEN out.store ELSE users
           /\ posts' = IF rq.op \in PostOps THEN out.store ELSE posts
           /\ now' = IF out.store # store THEN t ELSE now
  /\ UNCHANGED <<backend, started, http, authz, direct, configuredLogLevel, console>>

\* the response has been sent: the slot is free again
Finish(p) ==
  /\ req[p].pc \in {"Done", "Failed"}
  /\ req' = [req EXCEPT ![p] = IdleReq]
  /\ UNCHANGED <<users, posts, now, backend, started, http, authz, direct, configuredLogLevel, console>>

----------------------------------------------------------------------------
(* toHttpError on its own: a pair of errors and an instance *)

MaxIssues == 2

Messages == { <<"m1">>, <<"m2">> }

Causes == { None, Some("c1"), Some("c2") }

Detail1 == [field |-> <<"email">>, message |-> "Must be valid email", code |-> None]

Issue1 == Issue(<<"email">>, "Invalid email address", "invalid_format")

HttpErrors ==
  { validationError(m, None, d) : m \in Messages, d \in {None, Some(<<>>), Some(<<Detail1>>)} }
    \cup { notFoundError("User", i) : i \in {None, Some("u1")} }
    \cup { conflictError(m, None, None) : m \in Messages }
    \cup { unauthorizedError(m) : m \in {None} \cup { Some(x) : x \in Messages } }
    \cup { forbiddenError(m, None) : m \in Messages }
    \cup { unexpectedError(m, c) : m \in Messages, c \in Causes }
    \cup { ZodError([i \in 1..n |-> Issue1]) : n \in 0..MaxIssues }
    \cup { BaseError("TeapotError", m) : m \in Messages }

HttpIdle ==
  [error |-> <<BaseError("none", <<>>), BaseError("none", <<>>)>>, instance |-> None,
   out |-> <<None, None>>]

CallToHttpError(k) ==
  /\ k \in 1..2
  /\ http.out[k] = None
  /\ http.error[k].type # "none"
  /\ http' = [http EXCEPT !.out[k] = Some(toHttpError(http.error[k], http.instance))]
  /\ UNCHANGED <<users, posts, now, backend, req, started, authz, direct, configuredLogLevel, console>>

----------------------------------------------------------------------------
(* The authorization service on its own, with stub repositories as in its  *)
(* unit tests: a stub answers findById(id) with a fixed Result.            *)

UserStubResults(id) ==
  { ok(None),
    ok(Some([id |-> id, deletedAt |-> None])),
    ok(Some([id |-> id, deletedAt |-> Some(1)])),
    err(unexpectedError(<<"Database connection failed">>, None)) }

PostStubResults(id) ==
  { ok(None), err(unexpectedError(<<"Database connection failed">>, None)) }
    \cup { ok(Some([id |-> id, authorId |-> a, deletedAt |-> d])) :
             a \in UserIds, d \in {None, Some(1)} }

UserStubs ==
  { [findById |-> f] :
      f \in { g \in [UserIds -> UNION { UserStubResults(i) : i \in UserIds }] :
                \A i \in UserIds : g[i] \in UserStubResults(i) } }

PostStubs ==
  { [findById |-> f] :
      f \in { g \in [PostIds -> UNION { PostStubResults(i) : i \in PostIds }] :
                \A i \in PostIds : g[i] \in PostStubResults(i) } }

AuthzIdle ==
  [deps |-> [userRepository |-> [findById |-> <<>>], postRepository |-> [findById |-> <<>>]],
   userId |-> "", postId |-> "", op |-> "none", out |-> None]

CallAuthz(op, r) ==
  /\ authz.op = "none"
  /\ authz.userId # ""
  /\ authz' = [authz EXCEPT !.op = op, !.out = Some(r)]
  /\ UNCHANGED <<users, posts, now, backend, req, started, http, direct, configuredLogLevel, console>>

CallCanEditPost == CallAuthz("canEditPost", canEditPost(authz.deps, authz.userId, authz.postId))

CallCanDeletePost == CallAuthz("canDeletePost", canDeletePost(authz.deps, authz.userId, authz.postId))

CallCanViewPost == CallAuthz("canViewPost", canViewPost(authz.deps, authz.postId))

----------------------------------------------------------------------------
(* Specifications *)

\* no function has been called on its own
DirectIdle == [fn |-> "none", args |-> <<>>, out |-> None]

InitStores ==
  /\ users = <<>>
  /\ posts = <<>>
  /\ now = 0
  /\ req = [p \in Procs |-> IdleReq]
  /\ started = 0

\* the API serving requests from the postgres repositories, whose calls can
\* meet a storage failure
Init ==
  /\ InitStores
  /\ backend = "postgres"
  /\ http = HttpIdle
  /\ authz = AuthzIdle
  /\ direct = DirectIdle
  /\ configuredLogLevel = None
  /\ console = <<>>

Next ==
  \E p \in Procs :
    \/ Start(p)
    \/ AuthUser(p)
    \/ AuthPost(p)
    \/ PreCheck(p)
    \/ Execute(p)
    \/ Finish(p)

Spec == Init /\ [][Next]_vars

\* the API serving one request at a time from the in-memory repositories
InitSeq ==
  /\ InitStores
  /\ backend = "memory"
  /\ http = HttpIdle
  /\ authz = AuthzIdle
  /\ direct = DirectIdle
  /\ configuredLogLevel = None
  /\ console = <<>>

NextSeq ==
  \/ Start(1)
  \/ AuthUser(1)
  \/ AuthPost(1)
  \/ PreCheck(1)
  \/ Execute(1)
  \/ Finish(1)

SpecSeq == InitSeq /\ [][NextSeq]_vars

\* concurrent POST /users requests served from the in-memory repositories
StartCreateUser(p) == Begin(p, {"createUser"})

NextRace ==
  \E p \in Procs :
    \/ StartCreateUser(p)
    \/ PreCheck(p)
    \/ Execute(p)
    \/ Finish(p)

SpecRace == InitSeq /\ [][NextRace]_vars

\* findAll of the post repository called on its own: a store of up to MaxRows
\* posts, created in order by any authors and some of them deleted since
MaxRows == 2

MaxLimit == 3

PostStores ==
  UNION { { [i \in { PostIdName[k] : k \in 1..n } |->
               LET k == CHOOSE j \in 1..n : PostIdName[j] = i
               IN  [id |-> i, title |-> "t1", content |-> "c1", authorId |-> a[k],
                    createdAt |-> k, updatedAt |-> k,
                    deletedAt |-> IF d[k] THEN Some(n + 1) ELSE None]] :
              a \in [1..n -> UserIds], d \in [1..n -> BOOLEAN] } : n \in 0..MaxRows }

\* the options executeListPosts passes on: limit and offset as parsed, and
\* the authorId of the query, which may be absent or empty
FindAllOptions ==
  { [limit |-> l, offset |-> o, authorId |-> a] :
      l \in 1..MaxLimit, o \in 0..(MaxRows + 1),
      a \in {None, Some("")} \cup { Some(u) : u \in UserIds } }

CallPostFindAll ==
  /\ direct.fn = "none"
  /\ \E options \in FindAllOptions :
       direct' = [fn |-> "PostFindAll", args |-> <<options>>,
                  out |-> Some(PostFindAll(posts, options))]
  /\ UNCHANGED <<users, posts, now, backend, req, started, http, authz, configuredLogLevel, console>>

InitFindAll ==
  /\ users = <<>>
  /\ posts \in PostStores
  /\ now = MaxRows + 1
  /\ req = [p \in Procs |-> IdleReq]
  /\ started = 0
  /\ backend = "memory"
  /\ http = HttpIdle
  /\ authz = AuthzIdle
  /\ direct = DirectIdle
  /\ configuredLogLevel = None
  /\ console = <<>>

NextFindAll == CallPostFindAll

SpecFindAll == InitFindAll /\ [][NextFindAll]_vars

\* GET /users on its own: query strings are sequences of characters, of up
\* to MaxDigits characters
MaxDigits == 3

DigitChars == <<"0", "1", "2", "3", "4", "5", "6", "7", "8", "9">>

QueryChars == {"0", "1", "2", "9", "-", ".", "a"}

IsDigit(c) == \E d \in 1..10 : DigitChars[d] = c

DigitValue(c) == (CHOOSE d \in 1..10 : DigitChars[d] = c) - 1

RECURSIVE DigitsValue(_)
DigitsValue(ds) ==
  IF ds = <<>> THEN 0
  ELSE 10 * DigitsValue(SubSeq(ds, 1, Len(ds) - 1)) + DigitValue(ds[Len(ds)])

NaN == [nan |-> TRUE, neg |-> FALSE, whole |-> 0, frac |-> FALSE]

\* Number(s) for a string of digits, "-", "." and letters: the empty string is
\* 0; otherwise an optional sign, digits, and an optional point with digits,
\* at least one digit in all; anything else is NaN.  whole is the integer
\* part of the magnitude and frac tells whether a fraction is left.
NumberOf(s) ==
  IF s = <<>> THEN [nan |-> FALSE, neg |-> FALSE, whole |-> 0, frac |-> FALSE]
  ELSE LET neg    == s[1] = "-"
           body   == IF neg THEN Tail(s) ELSE s
           points == { i \in 1..Len(body) : body[i] = "." }
           point  == IF points = {} THEN Len(body) + 1 ELSE CHOOSE i \in points : TRUE
           before == SubSeq(body, 1, point - 1)
           after  == SubSeq(body, point + 1, Len(body))
       IN  IF \/ Cardinality(points) > 1
              \/ \E i \in 1..Len(body) : ~IsDigit(body[i]) /\ body[i] # "."
              \/ Len(before) + Len(after) = 0
             THEN NaN
             ELSE [nan |-> FALSE, neg |-> neg, whole |-> DigitsValue(before),
                   frac |-> \E i \in 1..Len(after) : after[i] # "0"]

IsNegative(num) == num.neg /\ (num.whole > 0 \/ num.frac)

\* z.coerce.number().int().min(min).max(max) on a value that is present;
\* max = -1 for no maximum.  Every failing check adds its issue.
NumberIssuesNoMax(path, v, min, max) ==
  LET num == NumberOf(v)
  IN  IF num.nan
        THEN <<Issue(path, "Invalid input: expected number, received NaN", "invalid_type")>>
        ELSE (IF num.frac
                THEN <<Issue(path, "Invalid input: expected int, received number",
                             "invalid_type")>>
                ELSE <<>>)
             \o (IF IsNegative(num) \/ num.whole < min
                   THEN <<Issue(path, "Too small", "too_small")>> ELSE <<>>)

NumberIssues(path, v, min, max) ==
  LET num == NumberOf(v)
  IN  IF num.nan
        THEN <<Issue(path, "Invalid input: expected number, received NaN", "invalid_type")>>
        ELSE (IF num.frac
                THEN <<Issue(path, "Invalid input: expected int, received number",
                             "invalid_type")>>
                ELSE <<>>)
             \o (IF IsNegative(num) \/ num.whole < min
                   THEN <<Issue(path, "Too small", "too_small")>> ELSE <<>>)
             \o (IF /\ max >= 0 /\ ~IsNegative(num)
                    /\ (num.whole > max \/ (num.whole = max /\ num.frac))
                   THEN <<Issue(path, "Too big", "too_big")>> ELSE <<>>)

\* .default(d): an absent value is replaced before anything is checked
NumberOrDefault(v, d) ==
  IF ~IsSome(v) THEN d
  ELSE IF IsNegative(NumberOf(v[1])) THEN 0 - NumberOf(v[1]).whole
  ELSE NumberOf(v[1]).whole

parseListUsersInput(data) ==
  ParseResult("Invalid list-users input",
    (IF IsSome(data.limit) THEN NumberIssues(<<"limit">>, data.limit[1], 1, 100) ELSE <<>>)
      \o (IF IsSome(data.offset) THEN NumberIssues(<<"offset">>, data.offset[1], 0, -1)
                                 ELSE <<>>),
    [limit |-> NumberOrDefault(data.limit, 20), offset |-> NumberOrDefault(data.offset, 0)])

executeListUsers(us, input) ==
  LET result == UserFindAll(us, [limit |-> input.limit, offset |-> input.offset])
  IN  IF isErr(result) THEN err(ErrorOf(result))
      ELSE ok([users |-> ValueOf(result).items,
               pagination |-> [total |-> ValueOf(result).total, limit |-> input.limit,
                               offset |-> input.offset]])

QueryStrings == UNION { [1..n -> QueryChars] : n \in 0..MaxDigits }

ListQueries ==
  { [limit |-> l, offset |-> o] :
      l \in {None} \cup { Some(x) : x \in QueryStrings },
      o \in {None, Some(<<>>), Some(<<"0">>), Some(<<"2">>), Some(<<"-", "1">>),
             Some(<<"a">>), Some(<<".", "9">>)} }

\* the handler of GET /users, run to its response
CallListUsers ==
  /\ direct.fn = "none"
  /\ \E query \in ListQueries :
       LET inputResult == parseListUsersInput(query)
           result == executeListUsers(users, ValueOf(inputResult))
       IN  direct' =
             [fn |-> "listUsers", args |-> <<query>>,
              out |-> Some(
                IF isErr(inputResult)
                  THEN [parsed |-> inputResult, calls |-> <<>>,
                        response |-> ErrorResponse(ErrorOf(inputResult), <<"/users">>)]
                  ELSE [parsed |-> inputResult,
                        calls |-> <<RepoCall("user", "findAll", ValueOf(inputResult))>>,
                        response |-> SuccessResponse(200,
                          Some([data |-> ValueOf(result).users,
                                pagination |-> ValueOf(result).pagination]))])]
  /\ UNCHANGED <<users, posts, now, backend, req, started, http, authz, configuredLogLevel, console>>

NextListInput == CallListUsers

SpecListInput == InitSeq /\ [][NextListInput]_vars

\* PATCH with any JSON object as its body: a body is a function from the keys
\* it holds to their values, and may hold a key no schema knows
BodyKeys == {"name", "email", "title", "userId", "role"}

BodyValues(key) ==
  CASE key = "name"   -> Names
    [] key = "email"  -> Emails
    [] key = "title"  -> Titles
    [] key = "userId" -> UserIds
    [] key = "role"   -> {"admin"}

Bodies ==
  UNION { { body \in [keys -> UNION { BodyValues(k) : k \in BodyKeys }] :
              \A k \in keys : body[k] \in BodyValues(k) } : keys \in SUBSET BodyKeys }

\* body.key, and the value a schema reads for one of its own keys
Field(body, key) == IF key \in DOMAIN body THEN Some(body[key]) ELSE None

\* { id: c.req.param("id"), data: body }
PatchUserRaw(id, body) ==
  [NoInput EXCEPT !.id = Some(id), !.name = Field(body, "name"),
                  !.email = Field(body, "email")]

\* { id: c.req.param("id"), userId: body.userId, data: body }
PatchPostRaw(id, body) ==
  [NoInput EXCEPT !.id = Some(id), !.userId = Field(body, "userId"),
                  !.title = Field(body, "title")]

\* PATCH /users/:id or PATCH /posts/:id arrives with a body
StartPatch(p) ==
  /\ req[p].pc = "Idle"
  /\ \A q \in Procs : q < p => req[q].pc # "Idle"
  /\ started < MaxRequests
  /\ \E body \in Bodies :
       /\ \/ \E id \in UserIds :
               /\ DOMAIN body \subseteq {"name", "email", "role"}
               /\ req' = [req EXCEPT ![p] =
                    Validated([Entered(IdleReq, "Validating") EXCEPT
                                 !.op = "patchUser", !.raw = PatchUserRaw(id, body)])]
          \/ \E id \in PostIds :
               /\ DOMAIN body \subseteq {"title", "userId", "role"}
               /\ req' = [req EXCEPT ![p] =
                    Validated([Entered(IdleReq, "Validating") EXCEPT
                                 !.op = "patchPost", !.raw = PatchPostRaw(id, body)])]
       /\ direct' = [fn |-> "patch", args |-> <<body>>, out |-> None]
  /\ started' = started + 1
  /\ UNCHANGED <<users, posts, now, backend, http, authz, configuredLogLevel, console>>

StartCreate(p) == Begin(p, CreateOps)

NextPatch ==
  \/ StartCreate(1)
  \/ StartPatch(1)
  \/ AuthUser(1)
  \/ AuthPost(1)
  \/ PreCheck(1)
  \/ Execute(1)
  \/ Finish(1)

SpecPatch == InitSeq /\ [][NextPatch]_vars

\* the parse functions on their own, on inputs with absent, empty, malformed,
\* overlong and well-formed values
NameInputs == {None, Some(""), Some("n1"), Some(LongString)}

EmailInputs == {None, Some(""), Some("nope"), Some("a@x.io")}

ImageInputs ==
  {None, Some(None)} \cup { Some(Some(x)) : x \in {"https://img", "nope", LongString, LongUrl} }

IdInputs == {None, Some(""), Some("id1")}

ContentInputs == {None, Some(""), Some("c1")}

ParseInputs(op) ==
  CASE op = "createUser" ->
         { [NoInput EXCEPT !.name = n, !.email = e, !.image = i] :
             n \in NameInputs, e \in EmailInputs, i \in ImageInputs }
    [] op \in {"patchUser", "putUser"} ->
         { [NoInput EXCEPT !.id = id, !.name = n, !.email = e, !.image = i] :
             id \in IdInputs, n \in NameInputs, e \in EmailInputs, i \in ImageInputs }
    [] op \in {"deleteUser", "getUser", "getPost"} ->
         { [NoInput EXCEPT !.id = id] : id \in IdInputs }
    [] op = "createPost" ->
         { [NoInput EXCEPT !.title = t, !.content = c, !.authorId = a] :
             t \in NameInputs, c \in ContentInputs, a \in IdInputs }
    [] op \in {"patchPost", "putPost"} ->
         { [NoInput EXCEPT !.id = id, !.userId = u, !.title = t, !.content = c] :
             id \in IdInputs, u \in IdInputs, t \in NameInputs, c \in ContentInputs }
    [] op = "deletePost" ->
         { [NoInput EXCEPT !.id = id, !.userId = u] : id \in IdInputs, u \in IdInputs }

CallParse ==
  /\ direct.fn = "none"
  /\ \E op \in Ops : \E data \in ParseInputs(op) :
       direct' = [fn |-> "parse", args |-> <<op, data>>, out |-> Some(Parse(op, data))]
  /\ UNCHANGED <<users, posts, now, backend, req, started, http, authz, configuredLogLevel, console>>

NextParse == CallParse

SpecParse == InitSeq /\ [][NextParse]_vars

\* executeCreatePost called with any CreatePostInput, the empty authorId
\* included, on stores that requests for users have filled
StartUserOp(p) == Begin(p, {"createUser", "deleteUser"})

CallCreatePost(p) ==
  /\ req[p].pc = "Idle"
  /\ \A q \in Procs : q < p => req[q].pc # "Idle"
  /\ started < MaxRequests
  /\ Cardinality(DOMAIN posts) + InFlight("createPost") < MaxPosts
  /\ \E t \in Titles, c \in Contents, a \in UserIds \cup {""} :
       LET input == [NoInput EXCEPT !.title = Some(t), !.content = Some(c),
                                    !.authorId = Some(a)]
       IN  req' = [req EXCEPT ![p] =
                     [Entered(IdleReq, "PreCheck") EXCEPT !.op = "createPost", !.raw = input,
                                                          !.input = Some(input)]]
  /\ started' = started + 1
  /\ UNCHANGED <<users, posts, now, backend, http, authz, direct, configuredLogLevel, console>>

NextCreatePost ==
  \/ StartUserOp(1)
  \/ CallCreatePost(1)
  \/ PreCheck(1)
  \/ Execute(1)
  \/ Finish(1)

SpecCreatePost == InitSeq /\ [][NextCreatePost]_vars

\* update of either repository called on its own, on a store of users or a
\* store of posts: live users hold distinct emails, deleted ones any
UserStores ==
  UNION { { us \in
              { [i \in { UserIdName[k] : k \in 1..n } |->
                   LET k == CHOOSE j \in 1..n : UserIdName[j] = i
                   IN  [id |-> i, name |-> "n1", email |-> e[k], emailVerified |-> None,
                        image |-> g[k], createdAt |-> k, updatedAt |-> k,
                        deletedAt |-> IF d[k] THEN Some(n + 1) ELSE None]] :
                  e \in [1..n -> Emails], g \in [1..n -> {None, Some("https://img")}],
                  d \in [1..n -> BOOLEAN] } :
              \A a, b \in DOMAIN us :
                a # b /\ ~Deleted(us[a]) /\ ~Deleted(us[b]) => us[a].email # us[b].email } :
          n \in 0..MaxUsers }

UserUpdates ==
  { [NoInput EXCEPT !.name = n, !.email = e, !.image = g] :
      n \in {None, Some("n2")}, e \in {None} \cup { Some(x) : x \in Emails },
      g \in {None, Some(None), Some(Some("https://pic"))} }

PostUpdates ==
  { [NoInput EXCEPT !.title = t, !.content = c] :
      t \in {None, Some("t2")}, c \in {None, Some("c2")} }

CallUserUpdate ==
  /\ direct.fn = "none"
  /\ \E id \in UserIds, input \in UserUpdates :
       LET out == UserUpdate(users, id, input, now + 1)
       IN  /\ users' = out.store
           /\ now' = IF out.store # users THEN now + 1 ELSE now
           /\ direct' = [fn |-> "UserUpdate", args |-> <<id, input>>, out |-> Some(out.result)]
  /\ UNCHANGED <<posts, backend, req, started, http, authz, configuredLogLevel, console>>

CallPostUpdate ==
  /\ direct.fn = "none"
  /\ \E id \in PostIds, input \in PostUpdates :
       LET out == PostUpdate(posts, id, input, now + 1)
       IN  /\ posts' = out.store
           /\ now' = IF out.store # posts THEN now + 1 ELSE now
           /\ direct' = [fn |-> "PostUpdate", args |-> <<id, input>>, out |-> Some(out.result)]
  /\ UNCHANGED <<users, backend, req, started, http, authz, configuredLogLevel, console>>

InitUpdate ==
  /\ \/ users \in UserStores /\ posts = <<>>
     \/ users = <<>> /\ posts \in PostStores
  /\ now = MaxUsers + MaxRows + 1
  /\ req = [p \in Procs |-> IdleReq]
  /\ started = 0
  /\ backend = "memory"
  /\ http = HttpIdle
  /\ authz = AuthzIdle
  /\ direct = DirectIdle
  /\ configuredLogLevel = None
  /\ console = <<>>

NextUpdate == CallUserUpdate \/ CallPostUpdate

SpecUpdate == InitUpdate /\ [][NextUpdate]_vars

\* isEmailAvailable called on its own, and create-user requests, on a store
\* of users
CallIsEmailAvailable ==
  /\ direct.fn = "none"
  /\ \E email \in Emails \cup {"", "nope"} :
       LET deps == [userRepository |->
                      [findByEmail |-> (email :> UserFindByEmail(users, email))]]
       IN  direct' = [fn |-> "isEmailAvailable", args |-> <<email>>,
                      out |-> Some(isEmailAvailable(deps, email).result)]
  /\ UNCHANGED <<users, posts, now, backend, req, started, http, authz, configuredLogLevel, console>>

InitEmail ==
  /\ users \in UserStores
  /\ posts = <<>>
  /\ now = MaxUsers + 1
  /\ req = [p \in Procs |-> IdleReq]
  /\ started = 0
  /\ backend = "memory"
  /\ http = HttpIdle
  /\ authz = AuthzIdle
  /\ direct = DirectIdle
  /\ configuredLogLevel = None
  /\ console = <<>>

NextEmail ==
  \/ CallIsEmailAvailable
  \/ StartCreateUser(1)
  \/ PreCheck(1)
  \/ Execute(1)
  \/ Finish(1)

SpecEmail == InitEmail /\ [][NextEmail]_vars

\* User statistics service: domain/services/user-statistics-service.ts,
\* composed with the in-memory repositories
getUserStatistics(us, ps, userId) ==
  LET userResult == UserFindById(us, userId)
  IN  IF isErr(userResult)
        THEN err(BaseError("UnexpectedError",
                           <<"Failed to find user: ">> \o ErrorOf(userResult).message))
      ELSE IF ~IsSome(ValueOf(userResult))
        THEN err([BaseError("NotFoundError", <<"User not found">>)
                    EXCEPT !.resource = Some("User"), !.id = Some(userId)])
      ELSE LET postsResult == PostFindAll(ps, [authorId |-> Some(userId), limit |-> 1000,
                                               offset |-> 0])
           IN  IF isErr(postsResult)
                 THEN err(BaseError("UnexpectedError",
                                    <<"Failed to fetch user posts: ">>
                                      \o ErrorOf(postsResult).message))
                 ELSE LET found == ValueOf(postsResult).items
                          IsActive(post) == post.deletedAt = None
                          IsDeleted(post) == post.deletedAt # None
                      IN  ok([user         |-> ValueOf(userResult)[1],
                              totalPosts   |-> Len(found),
                              activePosts  |-> Len(SelectSeq(found, IsActive)),
                              deletedPosts |-> Len(SelectSeq(found, IsDeleted))])

CallGetUserStatistics ==
  /\ direct.fn = "none"
  /\ \E userId \in UserIds :
       direct' = [fn |-> "getUserStatistics", args |-> <<userId>>,
                  out |-> Some(getUserStatistics(users, posts, userId))]
  /\ UNCHANGED <<users, posts, now, backend, req, started, http, authz, configuredLogLevel, console>>

InitStatistics ==
  /\ users \in UserStores
  /\ posts \in PostStores
  /\ now = MaxUsers + MaxRows + 1
  /\ req = [p \in Procs |-> IdleReq]
  /\ started = 0
  /\ backend = "memory"
  /\ http = HttpIdle
  /\ authz = AuthzIdle
  /\ direct = DirectIdle
  /\ configuredLogLevel = None
  /\ console = <<>>

NextStatistics == CallGetUserStatistics

SpecStatistics == InitStatistics /\ [][NextStatistics]_vars

\* The logger: configureLogger and the five logging methods, writing up to
\* MaxLogs messages
MaxLogs == 2

\* Object.values(LogLevel)
LogLevels == <<"ERROR", "WARN", "INFO", "DEBUG", "LOG">>

\* lower number = higher priority
LOG_LEVEL_PRIORITY(level) ==
  CASE level = "ERROR" -> 0
    [] level = "WARN"  -> 1
    [] level = "LOG"   -> 2
    [] level = "INFO"  -> 3
    [] level = "DEBUG" -> 4

\* the values of input.logLevel tried, and String.prototype.toUpperCase on them
LogLevelInputs ==
  {None, Some(""), Some("verbose"), Some("debug"), Some("Warn"), Some("log")}
    \cup { Some(LogLevels[i]) : i \in 1..Len(LogLevels) }

toUpperCase(str) ==
  CASE str = "verbose" -> "VERBOSE"
    [] str = "debug"   -> "DEBUG"
    [] str = "Warn"    -> "WARN"
    [] str = "log"     -> "LOG"
    [] OTHER           -> str

\* the value configureLogger leaves in configuredLogLevel
configureLogger(input) ==
  LET raw == IF IsSome(input.logLevel) THEN Some(toUpperCase(input.logLevel[1])) ELSE None
  IN  IF ~IsSome(raw) \/ raw[1] = "" THEN None
      ELSE IF \E i \in 1..Len(LogLevels) : LogLevels[i] = raw[1] THEN raw
      ELSE None

getCurrentLogLevel == IF IsSome(configuredLogLevel) THEN configuredLogLevel[1] ELSE "INFO"

shouldLog(level) == LOG_LEVEL_PRIORITY(level) <= LOG_LEVEL_PRIORITY(getCurrentLogLevel)

\* the console method each logging method writes with
ConsoleMethod(level) ==
  CASE level = "LOG"   -> "log"
    [] level = "INFO"  -> "info"
    [] level = "DEBUG" -> "log"
    [] level = "WARN"  -> "warn"
    [] level = "ERROR" -> "error"

ConfigureLogger ==
  /\ \E logLevel \in LogLevelInputs :
       configuredLogLevel' = configureLogger([logLevel |-> logLevel])
  /\ UNCHANGED <<users, posts, now, backend, req, started, http, authz, direct, console>>

\* logger.log, .info, .debug, .warn or .error
LoggerCall(level) ==
  /\ Len(console) < MaxLogs
  /\ console' = IF shouldLog(level)
                  THEN Append(console, [method |-> ConsoleMethod(level), level |-> level])
                  ELSE console
  /\ UNCHANGED <<users, posts, now, backend, req, started, http, authz, direct,
                 configuredLogLevel>>

NextLogger ==
  \/ ConfigureLogger
  \/ \E i \in 1..Len(LogLevels) : LoggerCall(LogLevels[i])

SpecLogger == InitSeq /\ [][NextLogger]_vars

\* every repository operation that writes, called on its own on a store of
\* users or a store of posts
RowIds == { PostIdName[k] : k \in 1..MaxRows }

CallUserCreate ==
  /\ direct.fn = "none"
  /\ Cardinality(DOMAIN users) < Len(UserIdName)
  /\ \E e \in Emails :
       LET input == [NoInput EXCEPT !.name = Some("n2"), !.email = Some(e)]
           out   == UserCreate(users, input, now + 1)
       IN  /\ users' = out.store
           /\ now' = IF out.store # users THEN now + 1 ELSE now
           /\ direct' = [fn |-> "UserCreate", args |-> <<input>>, out |-> Some(out.result)]
  /\ UNCHANGED <<posts, backend, req, started, http, authz, configuredLogLevel, console>>

CallPostCreate ==
  /\ direct.fn = "none"
  /\ Cardinality(DOMAIN posts) < Len(PostIdName)
  /\ \E a \in UserIds :
       LET input == [NoInput EXCEPT !.title = Some("t2"), !.content = Some("c2"),
                                    !.authorId = Some(a)]
           out   == PostCreate(posts, input, now + 1)
       IN  /\ posts' = out.store
           /\ now' = IF out.store # posts THEN now + 1 ELSE now
           /\ direct' = [fn |-> "PostCreate", args |-> <<input>>, out |-> Some(out.result)]
  /\ UNCHANGED <<users, backend, req, started, http, authz, configuredLogLevel, console>>

CallUserDelete ==
  /\ direct.fn = "none"
  /\ \E id \in UserIds :
       LET out == UserDelete(users, id, now + 1)
       IN  /\ users' = out.store
           /\ now' = IF out.store # users THEN now + 1 ELSE now
           /\ direct' = [fn |-> "UserDelete", args |-> <<id>>, out |-> Some(out.result)]
  /\ UNCHANGED <<posts, backend, req, started, http, authz, configuredLogLevel, console>>

CallPostDelete ==
  /\ direct.fn = "none"
  /\ \E id \in RowIds :
       LET out == PostDelete(posts, id, now + 1)
       IN  /\ posts' = out.store
           /\ now' = IF out.store # posts THEN now + 1 ELSE now
           /\ direct' = [fn |-> "PostDelete", args |-> <<id>>, out |-> Some(out.result)]
  /\ UNCHANGED <<users, backend, req, started, http, authz, configuredLogLevel, console>>

NextRepo ==
  \/ CallUserCreate
  \/ CallUserUpdate
  \/ CallUserDelete
  \/ CallPostCreate
  \/ CallPostUpdate
  \/ CallPostDelete

SpecRepo == InitUpdate /\ [][NextRepo]_vars

\* concurrent deletes: requests that create and delete users and posts, two
\* at a time, served from the in-memory repositories
StartCreateOrDelete(p) == Begin(p, {"createUser", "createPost", "deleteUser", "deletePost"})

NextDeleteRace ==
  \E p \in Procs :
    \/ StartCreateOrDelete(p)
    \/ AuthUser(p)
    \/ AuthPost(p)
    \/ PreCheck(p)
    \/ Execute(p)
    \/ Finish(p)

SpecDeleteRace == InitSeq /\ [][NextDeleteRace]_vars

\* the post use cases, two requests at a time, served from the in-memory
\* repositories; users are created to be their actors
StartPostOp(p) == Begin(p, PostOps \cup {"createUser"})

NextPostRace ==
  \E p \in Procs :
    \/ StartPostOp(p)
    \/ AuthUser(p)
    \/ AuthPost(p)
    \/ PreCheck(p)
    \/ Execute(p)
    \/ Finish(p)

SpecPostRace == InitSeq /\ [][NextPostRace]_vars

\* requests that delete users and read or write posts, one at a time, on
\* stores in which every post has its author among the users
StartOnStores(p) == Begin(p, {"deleteUser", "getPost", "patchPost", "putPost", "deletePost"})

InitOrphan ==
  /\ users \in UserStores
  /\ posts \in PostStores
  /\ \A id \in DOMAIN users : users[id].image = None
  /\ \A id \in DOMAIN posts : posts[id].authorId \in DOMAIN users
  /\ now = MaxUsers + MaxRows + 1
  /\ req = [p \in Procs |-> IdleReq]
  /\ started = 0
  /\ backend = "memory"
  /\ http = HttpIdle
  /\ authz = AuthzIdle
  /\ direct = DirectIdle
  /\ configuredLogLevel = None
  /\ console = <<>>

NextOrphan ==
  \/ StartOnStores(1)
  \/ AuthUser(1)
  \/ AuthPost(1)
  \/ Execute(1)
  \/ Finish(1)

SpecOrphan == InitOrphan /\ [][NextOrphan]_vars

\* PATCH requests that each set one field of an existing row, the post ones
\* sent by the post's author
FieldPatches(op, us, ps) ==
  IF op = "patchUser"
    THEN { [NoInput EXCEPT !.id = Some(i), !.name = Some("n2")] : i \in DOMAIN us }
           \cup { [NoInput EXCEPT !.id = Some(i), !.email = Some("b@x.io")] : i \in DOMAIN us }
    ELSE { [NoInput EXCEPT !.id = Some(i), !.userId = Some(ps[i].authorId),
                           !.title = Some("t2")] : i \in DOMAIN ps }
           \cup { [NoInput EXCEPT !.id = Some(i), !.userId = Some(ps[i].authorId),
                                  !.content = Some("c2")] : i \in DOMAIN ps }

\* one PATCH request per slot
StartFieldPatch(p) ==
  /\ req[p].pc = "Idle"
  /\ \A q \in Procs : q < p => req[q].pc # "Idle"
  /\ started < Cardinality(Procs)
  /\ \E op \in {"patchUser", "patchPost"} : \E raw \in FieldPatches(op, users, posts) :
       req' = [req EXCEPT ![p] =
                 Validated([Entered(IdleReq, "Validating") EXCEPT !.op = op, !.raw = raw])]
  /\ started' = started + 1
  /\ UNCHANGED <<users, posts, now, backend, http, authz, direct, configuredLogLevel, console>>

InitFieldPatch ==
  /\ users \in UserStores
  /\ posts \in PostStores
  /\ \A id \in DOMAIN users : users[id].image = None /\ ~Deleted(users[id])
  /\ \A id \in DOMAIN posts : posts[id].authorId \in DOMAIN users /\ ~Deleted(posts[id])
  /\ now = MaxUsers + MaxRows + 1
  /\ req = [p \in Procs |-> IdleReq]
  /\ started = 0
  /\ backend = "memory"
  /\ http = HttpIdle
  /\ authz = AuthzIdle
  /\ direct = DirectIdle
  /\ configuredLogLevel = None
  /\ console = <<>>

NextFieldPatch ==
  \E p \in Procs :
    \/ StartFieldPatch(p)
    \/ AuthUser(p)
    \/ AuthPost(p)
    \/ Execute(p)
    \/ Finish(p)

SpecFieldPatch == InitFieldPatch /\ [][NextFieldPatch]_vars

\* toHttpError applied to every pair of errors
InitHttp ==
  /\ InitStores
  /\ backend = "memory"
  /\ authz = AuthzIdle
  /\ direct = DirectIdle
  /\ configuredLogLevel = None
  /\ console = <<>>
  /\ http \in { [error |-> <<e1, e2>>, instance |-> i, out |-> <<None, None>>] :
                  e1 \in HttpErrors, e2 \in HttpErrors,
                  i \in {None, Some(<<"/api/test">>)} }

NextHttp == \E k \in 1..2 : CallToHttpError(k)

SpecHttp == InitHttp /\ [][NextHttp]_vars

\* the authorization service called once with every stub and id
InitAuthz ==
  /\ InitStores
  /\ backend = "memory"
  /\ http = HttpIdle
  /\ direct = DirectIdle
  /\ configuredLogLevel = None
  /\ console = <<>>
  /\ authz \in { [deps |-> [userRepository |-> u, postRepository |-> q],
                  userId |-> a, postId |-> i, op |-> "none", out |-> None] :
                   u \in UserStubs, q \in PostStubs, a \in UserIds, i \in PostIds }

NextAuthz == CallCanEditPost \/ CallCanDeletePost \/ CallCanViewPost

SpecAuthz == InitAuthz /\ [][NextAuthz]_vars

----------------------------------------------------------------------------
(* Properties of toHttpError (SpecHttp) *)

\* every string a problem body carries
BodyStrings(body) ==
  {body.type, body.title} \cup Range(body.detail)
    \cup (IF IsSome(body.instance) THEN Range(body.instance[1]) ELSE {})
    \cup (IF IsSome(body.errors)
            THEN UNION { {body.errors[1][i].message} \cup Range(body.errors[1][i].field) :
                           i \in 1..Len(body.errors[1]) }
            ELSE {})

ExpectedMapping(status, title, urn) == [status |-> status, title |-> title, urn |-> urn]

\* the table of the claim, written out
MappingOfKind(error) ==
  IF IsSome(error.issues)
    THEN Some(ExpectedMapping(400, "Validation Error", "urn:app:error:validation"))
  ELSE CASE error.type = "ValidationError" ->
              Some(ExpectedMapping(400, "Validation Error", "urn:app:error:validation"))
         [] error.type = "NotFoundError" ->
              Some(ExpectedMapping(404, "Not Found", "urn:app:error:not-found"))
         [] error.type = "ConflictError" ->
              Some(ExpectedMapping(409, "Conflict", "urn:app:error:conflict"))
         [] error.type = "UnauthorizedError" ->
              Some(ExpectedMapping(401, "Unauthorized", "urn:app:error:unauthorized"))
         [] error.type = "ForbiddenError" ->
              Some(ExpectedMapping(403, "Forbidden", "urn:app:error:forbidden"))
         [] error.type = "UnexpectedError" ->
              Some(ExpectedMapping(500, "Internal Server Error", "urn:app:error:unexpected"))
         [] OTHER -> None

\* C1: toHttpError maps every error kind (and a ZodError) to the fixed status,
\* title and type URN of the table; for every input the body carries type,
\* title, status and detail, body.status equals the returned status and the
\* Content-Type header is application/problem+json.
C1_MappingTable ==
  \A k \in 1..2 :
    IsSome(http.out[k]) =>
      LET e == http.error[k]
          r == http.out[k][1]
          m == MappingOfKind(e)
      IN  /\ IsSome(m) => /\ r.status = m[1].status
                          /\ r.body.title = m[1].title
                          /\ r.body.type = m[1].urn
          /\ {"type", "title", "status", "detail"} \subseteq DOMAIN r.body
          /\ Len(r.body.detail) > 0
          /\ r.body.status = r.status
          /\ r.headers.ContentType = "application/problem+json"

C1_Witness ==
  /\ IsSome(http.out[1]) /\ IsSome(http.out[2])
  /\ http.error[1].type = "ForbiddenError"
  /\ IsSome(http.error[2].issues)

\* C2: for an UnexpectedError the detail is the fixed generic string whatever
\* the message and the cause: two UnexpectedErrors that differ only in message
\* or cause map to identical responses, and neither the message nor the cause
\* occurs anywhere in the body.
C2_UnexpectedNeverLeaks ==
  /\ \A k \in 1..2 :
       (IsSome(http.out[k]) /\ http.error[k].type = "UnexpectedError") =>
         LET e == http.error[k]
             body == http.out[k][1].body
         IN  /\ body.detail = <<"An unexpected error occurred">>
             /\ Range(e.message) \cap BodyStrings(body) = {}
             /\ IsSome(e.cause) => e.cause[1] \notin BodyStrings(body)
  /\ (/\ IsSome(http.out[1]) /\ IsSome(http.out[2])
      /\ http.error[1].type = "UnexpectedError"
      /\ http.error[2].type = "UnexpectedError")
       => http.out[1] = http.out[2]

C2_Witness ==
  /\ IsSome(http.out[1]) /\ IsSome(http.out[2])
  /\ http.error[1].type = "UnexpectedError"
  /\ http.error[2].type = "UnexpectedError"
  /\ http.error[1].message # http.error[2].message
  /\ http.error[1].cause # http.error[2].cause
  /\ IsSome(http.error[1].cause)

----------------------------------------------------------------------------
(* Properties of the authorization service (SpecAuthz) *)

AuthzCalled(ops) == authz.op \in ops /\ IsSome(authz.out)

\* what the stubs answer for the ids of the call
StubUser == authz.deps.userRepository.findById[authz.userId]

StubPost == authz.deps.postRepository.findById[authz.postId]

\* the lookup found nothing usable: null, or a record marked deleted
Missing(lookup) ==
  lookup.isOk /\ (~IsSome(ValueOf(lookup)) \/ IsSome(ValueOf(lookup)[1].deletedAt))

Live(lookup) ==
  lookup.isOk /\ IsSome(ValueOf(lookup)) /\ ~IsSome(ValueOf(lookup)[1].deletedAt)

\* C6: canEditPost and canDeletePost resolve the actor first: when the user
\* lookup yields no user or a soft-deleted user the result is a failure of
\* kind UnauthorizedError whatever the post lookup would yield, and the post
\* repository is not asked.
C6_MissingActorUnauthorized ==
  (AuthzCalled({"canEditPost", "canDeletePost"}) /\ Missing(StubUser)) =>
    /\ isErr(authz.out[1].result)
    /\ ErrorOf(authz.out[1].result).type = "UnauthorizedError"
    /\ authz.out[1].calls = <<RepoCall("user", "findById", authz.userId)>>

C6_Witness ==
  /\ AuthzCalled({"canEditPost"})
  /\ StubUser = ok(None)
  /\ StubPost = ok(None)

\* C7: canEditPost and canDeletePost called with an existing, non-deleted
\* actor, and canViewPost, fail with NotFoundError whenever the post lookup
\* yields no post or a post whose deletedAt is set.
C7_MissingPostNotFound ==
  (/\ Missing(StubPost)
   /\ \/ AuthzCalled({"canViewPost"})
      \/ AuthzCalled({"canEditPost", "canDeletePost"}) /\ Live(StubUser)) =>
    /\ isErr(authz.out[1].result)
    /\ ErrorOf(authz.out[1].result).type = "NotFoundError"

C7_Witness ==
  /\ AuthzCalled({"canDeletePost"})
  /\ Live(StubUser)
  /\ StubPost.isOk /\ IsSome(ValueOf(StubPost)) /\ IsSome(ValueOf(StubPost)[1].deletedAt)

\* C8: for an existing non-deleted actor and an existing non-deleted post,
\* canEditPost and canDeletePost return a successful Result: isAuthorized is
\* true exactly when the post's authorId is the actor id, and reason is set
\* exactly when isAuthorized is false.
C8_OwnershipDecision ==
  (AuthzCalled({"canEditPost", "canDeletePost"}) /\ Live(StubUser) /\ Live(StubPost)) =>
    /\ authz.out[1].result.isOk
    /\ ValueOf(authz.out[1].result).isAuthorized
         <=> (ValueOf(StubPost)[1].authorId = authz.userId)
    /\ IsSome(ValueOf(authz.out[1].result).reason)
         <=> ~ValueOf(authz.out[1].result).isAuthorized

C8_Witness ==
  /\ AuthzCalled({"canEditPost"})
  /\ Live(StubUser) /\ Live(StubPost)
  /\ ValueOf(StubPost)[1].authorId # authz.userId
  /\ ~ValueOf(authz.out[1].result).isAuthorized

\* C9: canViewPost returns a successful Result with isAuthorized true for
\* every existing non-deleted post, whoever its author is, and does not call
\* the user repository.
C9_ViewNeedsNoOwner ==
  (AuthzCalled({"canViewPost"}) /\ Live(StubPost)) =>
    /\ authz.out[1].result.isOk
    /\ ValueOf(authz.out[1].result).isAuthorized
    /\ ~IsSome(ValueOf(authz.out[1].result).reason)
    /\ \A i \in 1..Len(authz.out[1].calls) : authz.out[1].calls[i].repo # "user"

C9_Witness ==
  /\ AuthzCalled({"canViewPost"})
  /\ Live(StubPost)
  /\ ValueOf(StubPost)[1].authorId # authz.userId
  /\ \A i \in UserIds : authz.deps.userRepository.findById[i] = ok(None)

----------------------------------------------------------------------------
(* Properties of the request pipeline (Spec) *)

StageRank(stage) ==
  CASE stage = "Validating" -> 1
    [] stage \in {"AuthUser", "AuthPost", "PreCheck"} -> 2
    [] stage = "Executing" -> 3
    [] stage \in {"Done", "Failed"} -> 4

\* the stages were entered in order, the two authorization lookups actor first
StagesInOrder(rq) ==
  /\ rq.trace[1] = "Validating"
  /\ \A i \in 1..Len(rq.trace) : \A j \in 1..Len(rq.trace) :
       i < j => \/ StageRank(rq.trace[i]) < StageRank(rq.trace[j])
                \/ rq.trace[i] = "AuthUser" /\ rq.trace[j] = "AuthPost"
  /\ \A i \in 1..Len(rq.trace) :
       rq.trace[i] \in {"Done", "Failed"} => i = Len(rq.trace)

EnteredExecuting(rq) == \E i \in 1..Len(rq.trace) : rq.trace[i] = "Executing"

Authorizing(rq) == \E i \in 1..Len(rq.trace) : rq.trace[i] \in {"AuthUser", "AuthPost"}

Invoked(rq, methods) == \E i \in 1..Len(rq.calls) : rq.calls[i].method \in methods

ValidationSucceeded(rq) ==
  /\ ~isErr(Parse(rq.op, rq.raw))
  /\ rq.input = Some(ValueOf(Parse(rq.op, rq.raw)))

\* the authorization stage ran for the actor and the post of the request and
\* granted the operation
AuthorizationSucceeded(rq) ==
  /\ Authorizing(rq)
  /\ IsSome(rq.userLookup) /\ IsSome(rq.postLookup) /\ IsSome(rq.auth)
  /\ Live(rq.userLookup[1]) /\ ValueOf(rq.userLookup[1])[1].id = rq.input[1].userId[1]
  /\ Live(rq.postLookup[1]) /\ ValueOf(rq.postLookup[1])[1].id = rq.input[1].id[1]
  /\ ValueOf(rq.postLookup[1])[1].authorId = rq.input[1].userId[1]
  /\ rq.auth[1].isOk /\ ValueOf(rq.auth[1]).isAuthorized
  /\ \E i \in 1..Len(rq.calls) : \E j \in 1..Len(rq.calls) :
       /\ i < j
       /\ rq.calls[i] = RepoCall("user", "findById", rq.input[1].userId[1])
       /\ rq.calls[j] = RepoCall("post", "findById", rq.input[1].id[1])
       /\ \A k \in 1..Len(rq.calls) :
            rq.calls[k].method \in {"update", "delete"} => j < k

StagesOf(rq, ops) ==
  /\ StagesInOrder(rq)
  /\ EnteredExecuting(rq) => ValidationSucceeded(rq)
  /\ (rq.op \in ops /\ (EnteredExecuting(rq) \/ Invoked(rq, {"update", "delete"})))
       => AuthorizationSucceeded(rq)

\* C3 as stated: every mutating use case, the user mutations included, calls
\* update or delete only after a successful authorization stage.
C3_AsStated ==
  \A p \in Procs :
    req[p].pc # "Idle" =>
      /\ StagesInOrder(req[p])
      /\ EnteredExecuting(req[p]) => ValidationSucceeded(req[p])
      /\ (req[p].op \in MutatingOps /\ Invoked(req[p], {"update", "delete"}))
           => AuthorizationSucceeded(req[p])

\* C3: every request enters its stages in the order Validating, Authorizing,
\* Executing, Done or Failed, and Executing only after validation succeeded.
\* A post mutation (patch, put, delete post) calls the repository's update or
\* delete only after the authorization stage for its actor and post granted
\* it; a user mutation (patch, put, delete user) has no authorization stage and
\* enters Executing straight after validation.
C3_StageOrder ==
  \A p \in Procs :
    req[p].pc # "Idle" =>
      /\ StagesOf(req[p], AuthorizedOps)
      /\ req[p].op \in MutatingOps \ AuthorizedOps =>
           /\ ~Authorizing(req[p])
           /\ req[p].auth = None
           /\ ValidationSucceeded(req[p]) => EnteredExecuting(req[p])

C3_Witness ==
  \E p \in Procs : \E q \in Procs :
    /\ req[p].op = "patchPost" /\ req[p].pc = "Done"
    /\ Invoked(req[p], {"update"})
    /\ req[q].op = "deleteUser" /\ req[q].pc = "Done"
    /\ Invoked(req[q], {"delete"})

\* the stage before Executing that failed, if any
ValidationFailed(rq) == isErr(Parse(rq.op, rq.raw))

AuthorizationFailed(rq) ==
  IsSome(rq.auth) /\ (isErr(rq.auth[1]) \/ ~ValueOf(rq.auth[1]).isAuthorized)

PreCheckFailed(rq) ==
  /\ rq.op \in CreateOps
  /\ IsSome(rq.userLookup)
  /\ IF rq.op = "createUser" THEN isErr(rq.userLookup[1]) \/ Live(rq.userLookup[1])
                             ELSE ~Live(rq.userLookup[1])

FailedFast(rq) ==
  /\ rq.pc = "Failed"
  /\ ~EnteredExecuting(rq)
  /\ ~Invoked(rq, {"create", "update", "delete"})
  /\ IsSome(rq.result) /\ isErr(rq.result[1])
  /\ IsSome(rq.response) /\ rq.response[1].status >= 400
  /\ ValidationFailed(rq) =>
       /\ rq.result[1] = err(ErrorOf(Parse(rq.op, rq.raw)))
       /\ rq.calls = <<>>
  /\ (AuthorizationFailed(rq) /\ isErr(rq.auth[1])) => rq.result[1] = rq.auth[1]
  /\ (AuthorizationFailed(rq) /\ ~isErr(rq.auth[1])) =>
       ErrorOf(rq.result[1]).type = "UnauthorizedError"
  /\ (PreCheckFailed(rq) /\ rq.op = "createUser" /\ Live(rq.userLookup[1])) =>
       ErrorOf(rq.result[1]).type = "ConflictError"
  /\ (PreCheckFailed(rq) /\ rq.op = "createPost") =>
       IF isErr(rq.userLookup[1]) THEN rq.result[1] = rq.userLookup[1]
                                  ELSE ErrorOf(rq.result[1]).type = "NotFoundError"

C4_FailedFast ==
  \A p \in Procs :
    (/\ req[p].pc # "Idle"
     /\ ValidationFailed(req[p]) \/ AuthorizationFailed(req[p]) \/ PreCheckFailed(req[p]))
      => FailedFast(req[p])

\* a step of a request that is not in Executing leaves both stores as they are
C4_NoSideEffect ==
  \A p \in Procs :
    (req'[p] # req[p] /\ req[p].pc # "Executing") => (users' = users /\ posts' = posts)

\* C4: when a stage before Executing fails (validation, an authorization
\* lookup, a denial, a create pre-check) the request ends with that failure
\* without entering Executing and without calling create, update or delete,
\* and no step outside Executing changes the user or the post store.
C4_FailFastNoSideEffects == []C4_FailedFast /\ [][C4_NoSideEffect]_vars

C4_Witness ==
  \E p \in Procs : \E q \in Procs :
    /\ req[p].pc = "Failed" /\ req[p].op = "createUser"
    /\ PreCheckFailed(req[p]) /\ Live(req[p].userLookup[1])
    /\ req[q].pc = "Failed" /\ req[q].op = "deletePost"
    /\ ValidationFailed(req[q])
    /\ DOMAIN users # {}

\* the request met a storage failure in one of its repository calls
StorageFailed(rq) ==
  \/ IsSome(rq.userLookup) /\ isErr(rq.userLookup[1])
       /\ ErrorOf(rq.userLookup[1]).type = "UnexpectedError"
  \/ IsSome(rq.postLookup) /\ isErr(rq.postLookup[1])
       /\ ErrorOf(rq.postLookup[1]).type = "UnexpectedError"
  \/ IsSome(rq.result) /\ isErr(rq.result[1])
       /\ ErrorOf(rq.result[1]).type = "UnexpectedError"

RepositoryMessages ==
  {"Failed to find user by id", "Failed to find user by email", "Failed to create user",
   "Failed to update user", "Failed to delete user", "Failed to find post by id",
   "Failed to create post", "Failed to update post", "Failed to delete post"}

\* C5 as stated: a storage failure of any stage reaches the client as HTTP 500
\* with the generic detail, and no repository message occurs in the body.
C5_AsStated ==
  \A p \in Procs :
    (req[p].pc \in {"Done", "Failed"} /\ StorageFailed(req[p])) =>
      /\ req[p].response[1].status = 500
      /\ IsSome(req[p].response[1].problem)
      /\ req[p].response[1].problem[1].detail = <<"An unexpected error occurred">>
      /\ BodyStrings(req[p].response[1].problem[1]) \cap RepositoryMessages = {}

\* the actor of a post mutation is live and is not the author of the live post
DeniedNonAuthor(rq) ==
  /\ rq.op \in AuthorizedOps
  /\ IsSome(rq.userLookup) /\ Live(rq.userLookup[1])
  /\ IsSome(rq.postLookup) /\ Live(rq.postLookup[1])
  /\ ValueOf(rq.postLookup[1])[1].authorId # rq.input[1].userId[1]

C10_Denied ==
  \A p \in Procs :
    DeniedNonAuthor(req[p]) =>
      /\ req[p].pc = "Failed"
      /\ isErr(req[p].result[1])
      /\ ErrorOf(req[p].result[1]).type = "UnauthorizedError"
      /\ IsSome(ValueOf(req[p].auth[1]).reason)
      /\ ErrorOf(req[p].result[1]).message = <<ValueOf(req[p].auth[1]).reason[1]>>
      /\ ErrorOf(req[p].result[1]).message =
           <<IF req[p].op = "deletePost" THEN "Only the author can delete this post"
                                         ELSE "Only the author can edit this post">>
      /\ req[p].response[1].status = 401
      /\ req[p].response[1].problem[1].detail = ErrorOf(req[p].result[1]).message
      /\ ~Invoked(req[p], {"update", "delete"})

\* the step that denies a request changes no post
C10_PostUntouched ==
  \A p \in Procs :
    (~DeniedNonAuthor(req[p]) /\ DeniedNonAuthor(req'[p])) => posts' = posts

\* C10: a patch, put or delete of a post by a live actor who is not the author
\* of the live post fails with UnauthorizedError whose message is the reason
\* of the authorization result, answered with HTTP 401; the request never
\* calls update or delete and the step that denies it leaves every post's
\* title, content and deletedAt as they were.
C10_NonAuthorDenied == []C10_Denied /\ [][C10_PostUntouched]_vars

C10_Witness ==
  \E p \in Procs :
    /\ DeniedNonAuthor(req[p])
    /\ req[p].op = "deletePost"
    /\ req[p].pc = "Failed"
    /\ ~Deleted(posts[req[p].input[1].id[1]])

----------------------------------------------------------------------------
(* Properties of the stores and of requests served one at a time (SpecSeq) *)

\* the pages a list request can ask for, up to one row past the store
UserPages ==
  { [limit |-> l, offset |-> o] : l \in 1..(MaxUsers + 1), o \in 0..(MaxUsers + 1) }

PostPages ==
  { [limit |-> l, offset |-> o, authorId |-> a] :
      l \in 1..(MaxPosts + 1), o \in 0..(MaxPosts + 1),
      a \in {None} \cup { Some(u) : u \in UserIds } }

ItemIds(found) == { ValueOf(found).items[i].id : i \in 1..Len(ValueOf(found).items) }

NotFoundWith404(result, path) ==
  /\ isErr(result)
  /\ ErrorOf(result).type = "NotFoundError"
  /\ ErrorResponse(ErrorOf(result), path).status = 404

\* what the repositories answer about a soft-deleted row
C11_DeletedIsGone ==
  /\ \A id \in DOMAIN users :
       Deleted(users[id]) =>
         /\ UserFindById(users, id) = ok(None)
         /\ \A o \in UserPages :
              /\ id \notin ItemIds(UserFindAll(users, o))
              /\ ValueOf(UserFindAll(users, o)).total
                   = Cardinality({ u \in DOMAIN users : ~Deleted(users[u]) })
         /\ NotFoundWith404(GetOutcome(UserFindById(users, id), "User", id), <<"/users/", id>>)
         /\ NotFoundWith404(UserDelete(users, id, now + 1).result, <<"/users/", id>>)
         /\ UserDelete(users, id, now + 1).store = users
  /\ \A id \in DOMAIN posts :
       Deleted(posts[id]) =>
         /\ PostFindById(posts, id) = ok(None)
         /\ \A o \in PostPages :
              /\ id \notin ItemIds(PostFindAll(posts, o))
              /\ ~IsSome(o.authorId) =>
                   ValueOf(PostFindAll(posts, o)).total
                     = Cardinality({ q \in DOMAIN posts : ~Deleted(posts[q]) })
         /\ NotFoundWith404(GetOutcome(PostFindById(posts, id), "Post", id), <<"/posts/", id>>)
         /\ NotFoundWith404(PostDelete(posts, id, now + 1).result, <<"/posts/", id>>)
         /\ PostDelete(posts, id, now + 1).store = posts

TargetDeleted(rq) ==
  IF rq.op \in UserOps
    THEN rq.input[1].id[1] \in DOMAIN users /\ Deleted(users[rq.input[1].id[1]])
    ELSE rq.input[1].id[1] \in DOMAIN posts /\ Deleted(posts[rq.input[1].id[1]])

EndsNotFound(rq) ==
  /\ rq.pc = "Failed"
  /\ ErrorOf(rq.result[1]).type = "NotFoundError"
  /\ rq.response[1].status = 404
  /\ rq.response[1].problem[1].type = "urn:app:error:not-found"

\* a GET or a second DELETE of a soft-deleted row is answered 404 and changes
\* nothing; DELETE /posts/:id meets the deleted post in its authorization stage
C11_RequestAfterDelete ==
  \A p \in Procs :
    (/\ req'[p] # req[p]
     /\ \/ req[p].pc = "Executing" /\ req[p].op \in {"getUser", "deleteUser", "getPost"}
        \/ req[p].pc = "AuthPost" /\ req[p].op = "deletePost"
     /\ TargetDeleted(req[p]))
      => /\ EndsNotFound(req'[p])
         /\ users' = users /\ posts' = posts

\* C11: once a delete of a user or a post has succeeded, findById answers
\* success with null, findAll neither lists nor counts the row, the GET of it
\* is answered 404, and another delete fails with NotFoundError (404) and
\* changes nothing.
C11_SoftDelete == []C11_DeletedIsGone /\ [][C11_RequestAfterDelete]_vars

C11_Witness ==
  /\ req[1].op = "deleteUser"
  /\ req[1].pc = "Failed"
  /\ TargetDeleted(req[1])
  /\ EndsNotFound(req[1])
  /\ \E i \in 1..Len(req[1].calls) : req[1].calls[i] = RepoCall("user", "delete", req[1].input[1].id[1])

LiveUsers(us) == { u \in DOMAIN us : ~Deleted(us[u]) }

UniqueEmails(us) ==
  \A a \in LiveUsers(us) : \A b \in LiveUsers(us) : us[a].email = us[b].email => a = b

EndsConflict(rq) ==
  /\ rq.pc = "Failed"
  /\ ErrorOf(rq.result[1]).type = "ConflictError"
  /\ rq.response[1].status = 409
  /\ rq.response[1].problem[1].type = "urn:app:error:conflict"

\* the email a create or an update asks for is held by another live user
EmailTaken(rq) ==
  /\ IsSome(rq.input[1].email)
  /\ \E u \in LiveUsers(users) :
       /\ users[u].email = rq.input[1].email[1]
       /\ rq.op \in {"patchUser", "putUser"} =>
            /\ u # rq.input[1].id[1]
            /\ rq.input[1].id[1] \in LiveUsers(users)

C12_Unique ==
  /\ UniqueEmails(users)
  /\ \A u \in LiveUsers(users) :
       LET input == [NoInput EXCEPT !.name = Some("n1"), !.email = Some(users[u].email)]
       IN  /\ isErr(UserCreate(users, input, now + 1).result)
           /\ ErrorOf(UserCreate(users, input, now + 1).result).type = "ConflictError"
           /\ UserCreate(users, input, now + 1).store = users

C12_DuplicateRejected ==
  \A p \in Procs :
    (/\ req'[p] # req[p]
     /\ \/ req[p].pc = "PreCheck" /\ req[p].op = "createUser"
        \/ req[p].pc = "Executing" /\ req[p].op \in {"patchUser", "putUser"}
     /\ EmailTaken(req[p]))
      => /\ EndsConflict(req'[p])
         /\ users' = users

\* C12: with user creates, updates and deletes served one at a time, no two
\* non-deleted users ever hold the same email: a create with, or an update
\* to, an email of another non-deleted user ends with ConflictError (409,
\* urn:app:error:conflict) and leaves the user store unchanged.
C12_EmailUniqueness == []C12_Unique /\ [][C12_DuplicateRejected]_vars

C12_Witness ==
  /\ req[1].op = "patchUser"
  /\ IsSome(req[1].input)
  /\ EmailTaken(req[1])
  /\ EndsConflict(req[1])
  /\ Cardinality(LiveUsers(users)) = 2

----------------------------------------------------------------------------
(* Properties of concurrent creates (SpecRace) *)

AttemptedInsertion(rq) ==
  /\ rq.op = "createUser"
  /\ rq.pc \in {"Done", "Failed"}
  /\ \E i \in 1..Len(rq.calls) : rq.calls[i] = RepoCall("user", "create", "input")

\* two creates of the same email both passed the pre-check and both called
\* the repository's create
Raced(p, q) ==
  /\ p # q
  /\ AttemptedInsertion(req[p]) /\ AttemptedInsertion(req[q])
  /\ req[p].input[1].email = req[q].input[1].email
  /\ req[p].userLookup = Some(ok(None)) /\ req[q].userLookup = Some(ok(None))

\* C13 as stated: after such a race neither insertion is rejected.
C13_AsStated ==
  \A p \in Procs : \A q \in Procs :
    Raced(p, q) => (req[p].pc = "Done" /\ req[q].pc = "Done")

\* C13: two creates with the same email that interleave at their awaits can
\* both pass the availability pre-check and both call the repository's
\* create; the in-memory create repeats the duplicate check in the same turn
\* as the insertion, so the second call is rejected with ConflictError (409)
\* and two non-deleted users never hold the same email.
C13_RaceRejected ==
  /\ UniqueEmails(users)
  /\ \A p \in Procs : \A q \in Procs :
       Raced(p, q) =>
         \/ req[p].pc = "Done" /\ EndsConflict(req[q])
         \/ req[q].pc = "Done" /\ EndsConflict(req[p])

C13_Witness ==
  /\ Raced(1, 2)
  /\ req[1].pc = "Done"
  /\ EndsConflict(req[2])
  /\ Cardinality(LiveUsers(users)) = 1

----------------------------------------------------------------------------
(* Round trip of a create (SpecSeq) *)

\* the entity a successful create request returned
Created(rq) == ValueOf(rq.result[1])

SuppliedUserFields(user, input) ==
  /\ user.name = input.name[1]
  /\ user.email = input.email[1]
  /\ user.image = (IF IsSome(input.image) THEN input.image[1] ELSE None)

SuppliedPostFields(post, input) ==
  /\ post.title = input.title[1]
  /\ post.content = input.content[1]
  /\ post.authorId = input.authorId[1]

C14_FetchedAsCreated ==
  \A p \in Procs :
    (req[p].pc = "Executing" /\ req[p].op \in CreateOps /\ req'[p].pc = "Done") =>
      LET entity == Created(req'[p])
          input  == req[p].input[1]
      IN  IF req[p].op = "createUser"
            THEN /\ UserFindById(users', entity.id) = ok(Some(entity))
                 /\ SuppliedUserFields(entity, input)
                 /\ entity.deletedAt = None
                 /\ entity.id \notin DOMAIN users
            ELSE /\ PostFindById(posts', entity.id) = ok(Some(entity))
                 /\ SuppliedPostFields(entity, input)
                 /\ entity.deletedAt = None
                 /\ entity.id \notin DOMAIN posts

\* C14: the entity a successful create returns is found by findById(id)
\* right away with name, email and image (title, content and authorId for a
\* post) as supplied and deletedAt null, and its id is the id of no entity
\* created before.
C14_RoundTrip == [][C14_FetchedAsCreated]_vars

C14_Witness ==
  /\ req[1].op = "createPost" /\ req[1].pc = "Done"
  /\ PostFindById(posts, Created(req[1]).id) = ok(Some(Created(req[1])))
  /\ Created(req[1]).title = "t2"
  /\ Cardinality(DOMAIN users) = 2

----------------------------------------------------------------------------
(* Properties of findAll (SpecFindAll) *)

\* the non-deleted posts the options select, in order of creation; an
\* authorId that is given selects the posts of that author
MatchingPosts(ps, options) ==
  LET order == PostOrder(ps)
      all == [i \in 1..Len(order) |-> ps[order[i]]]
      Matches(post) ==
        ~IsSome(post.deletedAt) /\ (IsSome(options.authorId) => post.authorId = options.authorId[1])
  IN  SelectSeq(all, Matches)

Min(a, b) == IF a < b THEN a ELSE b

Max(a, b) == IF a < b THEN b ELSE a

FindAllAsStated(ps, options, found) ==
  LET matching == MatchingPosts(ps, options)
  IN  /\ found.isOk
      /\ ValueOf(found).total = Len(matching)
      /\ Len(ValueOf(found).items)
           = Min(options.limit, Max(0, ValueOf(found).total - options.offset))
      /\ \A i \in 1..Len(ValueOf(found).items) :
           ValueOf(found).items[i] = matching[options.offset + i]
      /\ IsSome(options.authorId) =>
           \A i \in 1..Len(ValueOf(found).items) :
             ValueOf(found).items[i].authorId = options.authorId[1]

\* C15 as stated: total is the number of non-deleted posts matching the
\* filter whatever limit and offset are, items is the window
\* [offset, offset + limit) of those posts, and with an authorId given every
\* returned post has that authorId.
C15_AsStated ==
  direct.fn = "PostFindAll" => FindAllAsStated(posts, direct.args[1], direct.out[1])

\* what does hold: the same for every authorId that is absent or not empty
C15_NonEmptyFilter ==
  (direct.fn = "PostFindAll" /\ direct.args[1].authorId # Some(""))
    => FindAllAsStated(posts, direct.args[1], direct.out[1])

----------------------------------------------------------------------------
(* Update of a missing row (SpecSeq) *)

RowMissing(store, id) == id \notin DOMAIN store \/ Deleted(store[id])

UserUpdateInputs ==
  { [NoInput EXCEPT !.name = n, !.email = e] :
      n \in {None} \cup { Some(x) : x \in Names },
      e \in {None} \cup { Some(x) : x \in Emails } }

PostUpdateInputs ==
  { [NoInput EXCEPT !.title = t, !.content = c] :
      t \in {None} \cup { Some(x) : x \in Titles },
      c \in {None} \cup { Some(x) : x \in Contents } }

\* what the repositories answer to an update of a missing row
C16_UpdateOfMissing ==
  /\ \A id \in UserIds : \A input \in UserUpdateInputs :
       RowMissing(users, id) =>
         /\ NotFoundWith404(UserUpdate(users, id, input, now + 1).result, <<"/users/", id>>)
         /\ UserUpdate(users, id, input, now + 1).store = users
  /\ \A id \in PostIds : \A input \in PostUpdateInputs :
       RowMissing(posts, id) =>
         /\ NotFoundWith404(PostUpdate(posts, id, input, now + 1).result, <<"/posts/", id>>)
         /\ PostUpdate(posts, id, input, now + 1).store = posts

\* PUT and PATCH of a missing user end 404 in Executing; PUT and PATCH of a
\* missing post by a live actor end 404 in the authorization stage
C16_RequestOnMissing ==
  \A p \in Procs :
    (/\ req'[p] # req[p]
     /\ \/ /\ req[p].pc = "Executing" /\ req[p].op \in {"patchUser", "putUser"}
           /\ RowMissing(users, req[p].input[1].id[1])
        \/ /\ req[p].pc \in {"AuthPost", "Executing"} /\ req[p].op \in {"patchPost", "putPost"}
           /\ RowMissing(posts, req[p].input[1].id[1]))
      => /\ EndsNotFound(req'[p])
         /\ users' = users /\ posts' = posts

\* C16: update(id, input) of a user or a post that is absent or soft-deleted
\* fails with NotFoundError, which PUT and PATCH answer with 404, and the
\* store stays as it was.
C16_UpdateMissing == []C16_UpdateOfMissing /\ [][C16_RequestOnMissing]_vars

C16_Witness ==
  /\ req[1].op = "putUser"
  /\ IsSome(req[1].input)
  /\ req[1].input[1].id[1] \in DOMAIN users
  /\ Deleted(users[req[1].input[1].id[1]])
  /\ EndsNotFound(req[1])
  /\ \E i \in 1..Len(req[1].calls) : req[1].calls[i].method = "update"

----------------------------------------------------------------------------
(* Properties of list-input parsing (SpecListInput) *)

\* the decimal numeral of a natural number
RECURSIVE Numeral(_)
Numeral(n) ==
  IF n < 10 THEN <<DigitChars[n + 1]>>
  ELSE Append(Numeral(n \div 10), DigitChars[(n % 10) + 1])

Pow10(k) == IF k = 0 THEN 1 ELSE IF k = 1 THEN 10 ELSE IF k = 2 THEN 100
            ELSE IF k = 3 THEN 1000 ELSE 10000

Rejected(out) ==
  /\ isErr(out.parsed)
  /\ ErrorOf(out.parsed).type = "ValidationError"
  /\ out.response.status = 400
  /\ out.calls = <<>>

\* C17: a missing limit is parsed as 20 and a missing offset as 0; a numeral
\* is coerced to its number before the range checks; a parsed input always
\* has an integer limit in [1,100] and an integer offset >= 0; a numeral
\* outside the range, a negative or fractional number or a string that is no
\* number gives a ValidationError answered 400 with no repository call.
C17_ListInput ==
  direct.fn = "listUsers" =>
    LET query == direct.args[1]
        out   == direct.out[1]
    IN  /\ isErr(out.parsed) => Rejected(out)
        /\ ~isErr(out.parsed) =>
             /\ ValueOf(out.parsed).limit \in 1..100
             /\ ValueOf(out.parsed).offset \in Nat
             /\ ~IsSome(query.limit) => ValueOf(out.parsed).limit = 20
             /\ ~IsSome(query.offset) => ValueOf(out.parsed).offset = 0
             /\ out.calls = <<RepoCall("user", "findAll", ValueOf(out.parsed))>>
             /\ out.response.status = 200
             /\ out.response.data[1].pagination.limit = ValueOf(out.parsed).limit
             /\ out.response.data[1].pagination.offset = ValueOf(out.parsed).offset
        /\ \A n \in 0..(Pow10(MaxDigits) - 1) :
             query.limit = Some(Numeral(n)) =>
               IF n \in 1..100 /\ query.offset \in {None, Some(<<>>), Some(<<"0">>), Some(<<"2">>)}
                 THEN ~isErr(out.parsed) /\ ValueOf(out.parsed).limit = n
                 ELSE Rejected(out)
        /\ (IsSome(query.limit) /\ \E i \in 1..Len(query.limit[1]) : query.limit[1][i] \in {"a", "-"})
             => Rejected(out)
        /\ query.offset \in {Some(<<"-", "1">>), Some(<<"a">>), Some(<<".", "9">>)}
             => Rejected(out)
        /\ query.offset = Some(<<"2">>) /\ ~isErr(out.parsed) => ValueOf(out.parsed).offset = 2

C17_Witness ==
  /\ direct.fn = "listUsers"
  /\ direct.args[1].limit = Some(<<"2", "0", "0">>)
  /\ direct.args[1].offset = None
  /\ Rejected(direct.out[1])

----------------------------------------------------------------------------
(* Properties of PATCH bodies (SpecPatch) *)

Updatable(op) == IF op = "patchUser" THEN {"name", "email", "image"} ELSE {"title", "content"}

\* the request in slot p is a PATCH whose body holds no updatable field
EmptyPatch(rq) ==
  /\ rq.op \in {"patchUser", "patchPost"}
  /\ rq.pc # "Idle"
  /\ DOMAIN direct.args[1] \cap Updatable(rq.op) = {}

AtLeastOneFieldRejected(rq) ==
  /\ rq.pc = "Failed"
  /\ rq.trace = <<"Validating", "Failed">>
  /\ ErrorOf(rq.result[1]).type = "ValidationError"
  /\ \E i \in 1..Len(ErrorOf(rq.result[1]).details[1]) :
       ErrorOf(rq.result[1]).details[1][i].message
         = "At least one field must be provided for update"
  /\ rq.response[1].status = 400
  /\ rq.calls = <<>>

C18_Rejected == EmptyPatch(req[1]) => AtLeastOneFieldRejected(req[1])

C18_Unchanged ==
  EmptyPatch(req[1]) \/ EmptyPatch(req[1])' => UNCHANGED <<users, posts, now>>

\* C18: a PATCH of a user or a post whose body holds none of the updatable
\* fields (the empty body, a body of unknown keys only) is answered 400 with
\* the "at least one field" issue among the details, reaches no repository
\* and leaves both stores as they were.
C18_EmptyPatch == []C18_Rejected /\ [][C18_Unchanged]_vars

C18_Witness ==
  /\ req[1].op = "patchUser"
  /\ direct.fn = "patch"
  /\ DOMAIN direct.args[1] = {"role"}
  /\ req[1].raw.id = Some(UserIdName[1])
  /\ UserIdName[1] \in DOMAIN users
  /\ AtLeastOneFieldRejected(req[1])

----------------------------------------------------------------------------
(* Properties of the parse functions (SpecParse) *)

\* The constraints of the schemas, stated field by field: what a value
\* violates, as pairs of the dotted field path and the constraint code.
Violation(field, code) == <<field, code>>

RequiredViolations(field, v) ==
  IF ~IsSome(v) THEN {Violation(field, "invalid_type")} ELSE {}

LengthViolations(field, v, max) ==
  IF ~IsSome(v) THEN {}
  ELSE { Violation(field, "too_small") : x \in { y \in {v[1]} : y = "" } }
         \cup { Violation(field, "too_big") : x \in { y \in {v[1]} : max > 0 /\ StrLen(y) > max } }

EmailViolations(field, v) ==
  IF IsSome(v) /\ v[1] \notin Emails THEN {Violation(field, "invalid_format")} ELSE {}

ImageViolations(field, v) ==
  IF ~IsSome(v) \/ ~IsSome(v[1]) THEN {}
  ELSE { Violation(field, "invalid_format") : x \in { y \in {v[1][1]} : ~IsUrl(y) } }
         \cup { Violation(field, "too_big") : x \in { y \in {v[1][1]} : StrLen(y) > 255 } }

UserFieldViolations(prefix, data, required) ==
  (IF required
     THEN RequiredViolations(prefix \o <<"name">>, data.name)
            \cup RequiredViolations(prefix \o <<"email">>, data.email)
     ELSE {})
    \cup LengthViolations(prefix \o <<"name">>, data.name, 255)
    \cup EmailViolations(prefix \o <<"email">>, data.email)
    \cup ImageViolations(prefix \o <<"image">>, data.image)

PostFieldViolations(prefix, data, required) ==
  (IF required
     THEN RequiredViolations(prefix \o <<"title">>, data.title)
            \cup RequiredViolations(prefix \o <<"content">>, data.content)
     ELSE {})
    \cup LengthViolations(prefix \o <<"title">>, data.title, 255)
    \cup LengthViolations(prefix \o <<"content">>, data.content, 0)

KeyViolations(field, v) ==
  RequiredViolations(<<field>>, v) \cup LengthViolations(<<field>>, v, 0)

NoFieldViolations(keys) ==
  IF \A i \in 1..Len(keys) : ~IsSome(keys[i]) THEN {Violation(<<"data">>, "custom")} ELSE {}

Violated(op, data) ==
  CASE op = "createUser" -> UserFieldViolations(<<>>, data, TRUE)
    [] op = "patchUser"  ->
         KeyViolations("id", data.id) \cup UserFieldViolations(<<"data", ".">>, data, FALSE)
           \cup NoFieldViolations(<<data.name, data.email, data.image>>)
    [] op = "putUser"    ->
         KeyViolations("id", data.id) \cup UserFieldViolations(<<"data", ".">>, data, TRUE)
    [] op \in {"deleteUser", "getUser", "getPost"} -> KeyViolations("id", data.id)
    [] op = "createPost" ->
         PostFieldViolations(<<>>, data, TRUE) \cup KeyViolations("authorId", data.authorId)
    [] op = "patchPost"  ->
         KeyViolations("id", data.id) \cup KeyViolations("userId", data.userId)
           \cup PostFieldViolations(<<"data", ".">>, data, FALSE)
           \cup NoFieldViolations(<<data.title, data.content>>)
    [] op = "putPost"    ->
         KeyViolations("id", data.id) \cup KeyViolations("userId", data.userId)
           \cup PostFieldViolations(<<"data", ".">>, data, TRUE)
    [] op = "deletePost" ->
         KeyViolations("id", data.id) \cup KeyViolations("userId", data.userId)

----------------------------------------------------------------------------
(* Properties of executeCreatePost (SpecCreatePost) *)

LiveUser(us, id) == id \in DOMAIN us /\ ~Deleted(us[id])

AuthorOf(rq) == rq.input[1].authorId[1]

AuthorNotFound(rq) ==
  /\ EndsNotFound(rq)
  /\ ErrorOf(rq.result[1]).resource = Some("User")
  /\ ErrorOf(rq.result[1]).id = Some(AuthorOf(rq))
  /\ rq.calls = <<RepoCall("user", "findById", AuthorOf(rq))>>

\* the author lookup of a create-post: a live author lets the use case go on
\* to the insertion; any other authorId ends it with NotFoundError for User
\* and leaves the posts as they were
C20_AuthorLookup ==
  req[1].op = "createPost" /\ req[1].pc = "PreCheck" /\ req'[1].pc # "PreCheck" =>
    IF LiveUser(users, AuthorOf(req[1]))
      THEN req'[1].pc = "Executing"
      ELSE AuthorNotFound(req'[1]) /\ posts' = posts

\* a post is added only by a create-post whose lookup returned a live user
C20_AddedForLiveAuthor ==
  posts' # posts =>
    /\ req[1].op = "createPost" /\ req[1].pc = "Executing"
    /\ ~isErr(req[1].userLookup[1])
    /\ IsSome(ValueOf(req[1].userLookup[1]))
    /\ ~Deleted(ValueOf(req[1].userLookup[1])[1])
    /\ ValueOf(req[1].userLookup[1])[1].id = AuthorOf(req[1])
    /\ \E id \in DOMAIN posts' \ DOMAIN posts : posts'[id].authorId = AuthorOf(req[1])

\* C20: executeCreatePost inserts a post only after its lookup of authorId
\* returned a live user; for an unknown id, the empty id or a soft-deleted
\* author it fails with NotFoundError for resource User (404,
\* urn:app:error:not-found) and adds no post.
C20_CreatePost == [][C20_AuthorLookup /\ C20_AddedForLiveAuthor]_vars

\* the author was soft-deleted before the post was asked for
C20_Witness ==
  /\ req[1].op = "createPost"
  /\ req[1].pc = "Failed"
  /\ AuthorOf(req[1]) \in DOMAIN users
  /\ Deleted(users[AuthorOf(req[1])])
  /\ AuthorNotFound(req[1])

----------------------------------------------------------------------------
(* Properties of the Executing stage (Spec) *)

\* what the one repository operation of the request in slot p can return: the
\* operation applied to the stores, or, on postgres, a storage failure
RepoOutcomes(p) ==
  {RepoExec(req[p].op, req[p].input[1], users, posts, now + 1)}
    \cup (IF backend = "postgres"
            THEN {StorageFailure(ExecFailureMessage(req[p].op),
                                 IF req[p].op \in UserOps THEN users ELSE posts)}
            ELSE {})

\* the use case's result rq for the repository's result: the error as it is,
\* the value as it is (delete has none and reports success), and for a get
\* NotFoundError in place of null
Carried(op, id, result, rq) ==
  IF isErr(result)
    THEN rq.pc = "Failed" /\ rq.result = Some(err(ErrorOf(result)))
  ELSE IF op \in {"getUser", "getPost"} /\ ~IsSome(ValueOf(result))
    THEN /\ EndsNotFound(rq)
         /\ ErrorOf(rq.result[1]).resource = Some(IF op = "getUser" THEN "User" ELSE "Post")
         /\ ErrorOf(rq.result[1]).id = id
  ELSE /\ rq.pc = "Done"
       /\ rq.result = Some(ok(IF op \in {"getUser", "getPost"} THEN ValueOf(result)[1]
                              ELSE IF op \in {"deleteUser", "deletePost"}
                                THEN [success |-> TRUE]
                              ELSE ValueOf(result)))

C21_ExecutingStep(p) ==
  req[p].pc = "Executing" /\ req'[p] # req[p] =>
    \E out \in RepoOutcomes(p) :
      /\ users' = (IF req[p].op \in UserOps THEN out.store ELSE users)
      /\ posts' = (IF req[p].op \in PostOps THEN out.store ELSE posts)
      /\ Len(req'[p].calls) = Len(req[p].calls) + 1
      /\ SubSeq(req'[p].calls, 1, Len(req[p].calls)) = req[p].calls
      /\ req'[p].calls[Len(req'[p].calls)].repo = ExecRepo(req[p].op)
      /\ req'[p].calls[Len(req'[p].calls)].method = ExecMethod(req[p].op)
      /\ Carried(req[p].op, req[p].input[1].id, out.result, req'[p])

----------------------------------------------------------------------------
(* Properties of update (SpecUpdate) *)

\* the field of the row after an update that supplied v for it (v absent:
\* the field was not supplied)
Supplied(v, old) == IF IsSome(v) THEN v[1] ELSE old

OthersKept(old, new, id) ==
  /\ DOMAIN new = DOMAIN old
  /\ \A o \in DOMAIN old \ {id} : new[o] = old[o]

C22_UserUpdated ==
  direct'.fn = "UserUpdate" /\ direct.fn = "none" /\ ~isErr(direct'.out[1]) =>
    LET id    == direct'.args[1]
        input == direct'.args[2]
        old   == users[id]
        new   == users'[id]
    IN  /\ OthersKept(users, users', id)
        /\ posts' = posts
        /\ new.name = Supplied(input.name, old.name)
        /\ new.email = Supplied(input.email, old.email)
        /\ new.image = Supplied(input.image, old.image)
        /\ new.updatedAt = now + 1
        /\ new.id = old.id /\ new.createdAt = old.createdAt /\ new.deletedAt = old.deletedAt
        /\ new.emailVerified = old.emailVerified
        /\ ValueOf(direct'.out[1]) = new

C22_PostUpdated ==
  direct'.fn = "PostUpdate" /\ direct.fn = "none" /\ ~isErr(direct'.out[1]) =>
    LET id    == direct'.args[1]
        input == direct'.args[2]
        old   == posts[id]
        new   == posts'[id]
    IN  /\ OthersKept(posts, posts', id)
        /\ users' = users
        /\ new.title = Supplied(input.title, old.title)
        /\ new.content = Supplied(input.content, old.content)
        /\ new.updatedAt = now + 1
        /\ new.id = old.id /\ new.createdAt = old.createdAt /\ new.deletedAt = old.deletedAt
        /\ new.authorId = old.authorId
        /\ ValueOf(direct'.out[1]) = new

\* C22: a successful update writes the supplied fields and updatedAt and
\* nothing else: a field that was not supplied keeps its value (a user's image
\* is written only when supplied, null included), id, createdAt, deletedAt and
\* a post's authorId stay, and so does every other row.
C22_UpdateFrame == [][C22_UserUpdated /\ C22_PostUpdated]_vars

\* an update of the name alone has left the stored image in place
C22_Witness ==
  /\ direct.fn = "UserUpdate"
  /\ ~isErr(direct.out[1])
  /\ direct.args[2].name = Some("n2")
  /\ direct.args[2].image = None
  /\ direct.args[2].email = None
  /\ users[direct.args[1]].image = Some("https://img")
  /\ users[direct.args[1]].name = "n2"
  /\ Cardinality(DOMAIN users) > 1

----------------------------------------------------------------------------
(* Properties of isEmailAvailable (SpecEmail) *)

NoLiveHolder(us, email) == ~\E id \in DOMAIN us : us[id].email = email /\ ~Deleted(us[id])

\* isEmailAvailable of a well-formed email is true exactly when no live user
\* holds it
C23_Available ==
  direct'.fn = "isEmailAvailable" /\ direct.fn = "none" /\ IsEmail(direct'.args[1]) =>
    direct'.out[1] = ok(NoLiveHolder(users, direct'.args[1]))

\* a create-user whose email no live user holds passes the availability check
\* and inserts its user; one whose email a live user holds ends in a conflict
C23_CreateFollows ==
  req[1].op = "createUser" /\ req'[1] # req[1] =>
    LET email == req[1].input[1].email[1]
    IN  /\ req[1].pc = "PreCheck" =>
             IF NoLiveHolder(users, email) THEN req'[1].pc = "Executing"
                                           ELSE EndsConflict(req'[1]) /\ users' = users
        /\ req[1].pc = "Executing" /\ NoLiveHolder(users, email) =>
             /\ req'[1].pc = "Done"
             /\ \E id \in DOMAIN users' \ DOMAIN users :
                  users'[id].email = email /\ ~Deleted(users'[id])

\* C23: isEmailAvailable of a well-formed email is true exactly when no live
\* user holds the email, a soft-deleted holder not counting; so a create-user
\* with the email of a soft-deleted user succeeds, and live users still hold
\* distinct emails.
C23_EmailAvailability ==
  []UniqueEmails(users) /\ [][C23_Available /\ C23_CreateFollows]_vars

\* a user has been created with the email of a soft-deleted one
C23_Witness ==
  /\ req[1].op = "createUser"
  /\ req[1].pc = "Done"
  /\ \E old, new \in DOMAIN users :
       /\ Deleted(users[old]) /\ ~Deleted(users[new])
       /\ users[old].email = users[new].email
       /\ users[new] = ValueOf(req[1].result[1])

----------------------------------------------------------------------------
(* Properties of getUserStatistics (SpecStatistics) *)

PostsOf(ps, userId) == { id \in DOMAIN ps : ps[id].authorId = userId }

\* C24: the statistics of a user count all of the user's posts, soft-deleted
\* ones included: deletedPosts the posts whose deletedAt is set, activePosts
\* the others, totalPosts their sum.
C24_AsStated ==
  direct.fn = "getUserStatistics" /\ ~isErr(direct.out[1]) =>
    LET stats == ValueOf(direct.out[1])
        mine  == PostsOf(posts, direct.args[1])
    IN  /\ stats.totalPosts = stats.activePosts + stats.deletedPosts
        /\ stats.deletedPosts = Cardinality({ id \in mine : Deleted(posts[id]) })
        /\ stats.activePosts = Cardinality({ id \in mine : ~Deleted(posts[id]) })

\* what the composition computes: findAll has left the deleted posts out
C24_DeletedNeverCounted ==
  direct.fn = "getUserStatistics" /\ ~isErr(direct.out[1]) =>
    LET stats == ValueOf(direct.out[1])
        mine  == PostsOf(posts, direct.args[1])
    IN  /\ stats.deletedPosts = 0
        /\ stats.totalPosts = stats.activePosts
        /\ stats.activePosts = Cardinality({ id \in mine : ~Deleted(posts[id]) })

----------------------------------------------------------------------------
(* Properties of the logger (SpecLogger) *)

\* the documented order ERROR > WARN > INFO > DEBUG > LOG, as a rank
StatedRank(level) ==
  CASE level = "ERROR" -> 4
    [] level = "WARN"  -> 3
    [] level = "INFO"  -> 2
    [] level = "DEBUG" -> 1
    [] level = "LOG"   -> 0

Written == console' # console

\* C25: a message is written only when its level is at or above the
\* configured level in the order ERROR > WARN > INFO > DEBUG > LOG, and the
\* configured level is INFO after configureLogger got no level or one it does
\* not know.
C25_AsStated ==
  [][/\ Written =>
          /\ Len(console') = Len(console) + 1
          /\ StatedRank(console'[Len(console')].level) >= StatedRank(getCurrentLogLevel)
     /\ configuredLogLevel' = None => getCurrentLogLevel' = "INFO"]_vars

\* what the logger does: a message is written when the table ranks its level
\* at or before the configured one, which puts LOG between WARN and INFO
C25_ByTable ==
  [][Written =>
       LOG_LEVEL_PRIORITY(console'[Len(console')].level)
         <= LOG_LEVEL_PRIORITY(getCurrentLogLevel)]_vars

\* the level is INFO unless configureLogger was given one of the five names,
\* in any case of letters
C25_DefaultInfo ==
  [][configuredLogLevel' # configuredLogLevel \/ configuredLogLevel' = None =>
       getCurrentLogLevel' \in {"INFO"} \cup { LogLevels[i] : i \in 1..Len(LogLevels) }]_vars

----------------------------------------------------------------------------
(* Properties of soft-deleted rows (SpecRepo) *)

\* no row leaves the store and a soft-deleted row stays as it is
RowsKept(old, new) ==
  /\ DOMAIN old \subseteq DOMAIN new
  /\ \A id \in DOMAIN old : Deleted(old[id]) => new[id] = old[id]

\* update and delete of a soft-deleted row fail with NotFoundError
C26_DeletedRefused ==
  /\ direct'.fn \in {"UserUpdate", "UserDelete"} /\ direct.fn = "none"
       /\ direct'.args[1] \in DOMAIN users /\ Deleted(users[direct'.args[1]])
       => isErr(direct'.out[1]) /\ ErrorOf(direct'.out[1]).type = "NotFoundError"
  /\ direct'.fn \in {"PostUpdate", "PostDelete"} /\ direct.fn = "none"
       /\ direct'.args[1] \in DOMAIN posts /\ Deleted(posts[direct'.args[1]])
       => isErr(direct'.out[1]) /\ ErrorOf(direct'.out[1]).type = "NotFoundError"

\* a created row has an id no row had
C26_FreshId ==
  /\ direct'.fn = "UserCreate" /\ direct.fn = "none" /\ ~isErr(direct'.out[1])
       => ValueOf(direct'.out[1]).id \notin DOMAIN users
  /\ direct'.fn = "PostCreate" /\ direct.fn = "none" /\ ~isErr(direct'.out[1])
       => ValueOf(direct'.out[1]).id \notin DOMAIN posts

\* C26: once deletedAt of a user or a post is set, no create, update or
\* delete changes any field of the row or clears the mark (update and delete
\* of it fail with NotFoundError, create takes a fresh id), and no row is
\* ever removed from a store.
C26_DeletedIsFinal ==
  [][/\ RowsKept(users, users')
     /\ RowsKept(posts, posts')
     /\ C26_DeletedRefused
     /\ C26_FreshId]_vars

\* a delete of an already deleted user has been refused
C26_Witness ==
  /\ direct.fn = "UserDelete"
  /\ direct.args[1] \in DOMAIN users
  /\ Deleted(users[direct.args[1]])
  /\ isErr(direct.out[1])
  /\ ErrorOf(direct.out[1]).type = "NotFoundError"
  /\ users[direct.args[1]].deletedAt # Some(now)

----------------------------------------------------------------------------
(* Properties of concurrent deletes (SpecDeleteRace) *)

IsDelete(rq) == rq.op \in {"deleteUser", "deletePost"}

TargetStore(op, us, ps) == IF op = "deleteUser" THEN us ELSE ps

\* two delete requests for the same row are never both successful
C27_OneWinner ==
  \A p, q \in Procs :
    /\ p # q /\ IsDelete(req[p]) /\ req[q].op = req[p].op
    /\ req[p].pc = "Done" /\ req[q].pc = "Done"
    => req[p].input[1].id # req[q].input[1].id

\* the repository call of a delete: it succeeds on a live row, which it marks,
\* and ends in NotFoundError on a row that is already marked
C27_DeleteStep ==
  \A p \in Procs :
    IsDelete(req[p]) /\ req[p].pc = "Executing" /\ req'[p] # req[p] =>
      LET id  == req[p].input[1].id[1]
          old == TargetStore(req[p].op, users, posts)
          new == TargetStore(req[p].op, users', posts')
      IN  IF id \in DOMAIN old /\ ~Deleted(old[id])
            THEN req'[p].pc = "Done" /\ Deleted(new[id])
            ELSE EndsNotFound(req'[p]) /\ new = old

\* C27: of concurrent deletes of one id at most one succeeds; any other ends
\* in NotFoundError, also when it had passed its authorization stage before
\* the first delete took effect.
C27_ConcurrentDelete == []C27_OneWinner /\ [][C27_DeleteStep]_vars

\* two deletes of a post by its author were both authorized; one succeeded
\* and the other met the deleted post in the repository
C27_Witness ==
  /\ req[1].op = "deletePost" /\ req[2].op = "deletePost"
  /\ req[1].input # None /\ req[2].input # None
  /\ req[1].input[1].id = req[2].input[1].id
  /\ req[1].pc = "Done"
  /\ EndsNotFound(req[2])
  /\ req[2].trace = <<"Validating", "AuthUser", "AuthPost", "Executing", "Failed">>

----------------------------------------------------------------------------
(* Properties of post ownership (SpecPostRace) *)

\* the request in slot p is at its repository call, writing post id on behalf
\* of userId
WritesPostAs(p, id, userId) ==
  /\ req[p].op \in {"patchPost", "putPost", "deletePost"}
  /\ req[p].pc = "Executing"
  /\ req'[p] # req[p]
  /\ req[p].input[1].id = Some(id)
  /\ req[p].input[1].userId = Some(userId)

C28_OwnerWrites ==
  \A id \in DOMAIN posts :
    /\ posts'[id].authorId = posts[id].authorId
    /\ posts'[id] # posts[id] => \E p \in Procs : WritesPostAs(p, id, posts[id].authorId)

\* C28: in every interleaving of the post use cases a post's title, content
\* and deletedAt are changed only by a use case invoked with the userId that
\* is the post's authorId, and a post's authorId never changes.
C28_OnlyAuthorWrites == [][C28_OwnerWrites]_vars

\* the author has changed the title of the post while another user's attempt
\* was refused
C28_Witness ==
  \E p, q \in Procs :
    /\ req[p].op = "patchPost" /\ req[p].pc = "Done"
    /\ req[p].input[1].userId = Some(posts[req[p].input[1].id[1]].authorId)
    /\ posts[req[p].input[1].id[1]].title = req[p].input[1].title[1]
    /\ req[q].op \in {"patchPost", "putPost", "deletePost"} /\ req[q].pc = "Failed"
    /\ req[q].input # None
    /\ req[q].input[1].id = req[p].input[1].id
    /\ req[q].input[1].userId # req[p].input[1].userId
    /\ ErrorOf(req[q].result[1]).type = "UnauthorizedError"

----------------------------------------------------------------------------
(* Properties of the posts of a deleted user (SpecOrphan) *)

\* a live post whose author has been soft-deleted
Orphaned(id) ==
  /\ id \in DOMAIN posts /\ ~Deleted(posts[id])
  /\ posts[id].authorId \in DOMAIN users /\ Deleted(users[posts[id].authorId])

Listed(id, authorId) ==
  LET found == ValueOf(PostFindAll(posts, [limit |-> MaxRows + 1, offset |-> 0,
                                           authorId |-> authorId])).items
  IN  \E i \in 1..Len(found) : found[i] = posts[id]

\* the post is still found by id and listed, with and without its author as
\* the filter
C29_Visible ==
  \A id \in DOMAIN posts :
    Orphaned(id) =>
      /\ PostFindById(posts, id) = ok(Some(posts[id]))
      /\ Listed(id, None)
      /\ Listed(id, Some(posts[id].authorId))

\* an update-post or delete-post use case running on the post has not passed
\* its authorization, and has ended, if it has, in UnauthorizedError
C29_Refused ==
  req[1].op \in {"patchPost", "putPost", "deletePost"} /\ req[1].input # None
    /\ Orphaned(req[1].input[1].id[1]) =>
      /\ req[1].pc \in {"AuthUser", "AuthPost", "Failed"}
      /\ req[1].pc = "Failed" =>
           /\ ErrorOf(req[1].result[1]).type = "UnauthorizedError"
           /\ req[1].response[1].status = 401

\* delete-user writes no post, a get of the post succeeds, and the post is
\* never written again
C29_Step ==
  /\ req[1].op = "deleteUser" /\ req[1].pc = "Executing" /\ req'[1].pc = "Done"
       => posts' = posts /\ Deleted(users'[req[1].input[1].id[1]])
  /\ req[1].op = "getPost" /\ req[1].pc = "Executing" /\ Orphaned(req[1].input[1].id[1])
       /\ req'[1] # req[1]
       => req'[1].pc = "Done" /\ req'[1].response[1].status = 200
  /\ \A id \in DOMAIN posts : Orphaned(id) => posts'[id] = posts[id] /\ Orphaned(id)'

\* C29: deleting a user leaves the user's posts as they are: they keep
\* deletedAt null and are still returned by get-post and list-posts, but every
\* update-post or delete-post use case started afterwards on them ends in
\* UnauthorizedError, for the deleted author as for anyone else, so they are
\* never modified or deleted again.
C29_OrphanedPosts == [](C29_Visible /\ C29_Refused) /\ [][C29_Step]_vars

\* a live user's attempt to delete the post of a deleted author was refused
C29_Witness ==
  /\ req[1].op = "deletePost"
  /\ req[1].pc = "Failed"
  /\ req[1].input # None
  /\ Orphaned(req[1].input[1].id[1])
  /\ LiveUser(users, req[1].input[1].userId[1])
  /\ ErrorOf(req[1].result[1]).type = "UnauthorizedError"

----------------------------------------------------------------------------
(* Properties of concurrent PATCH requests (SpecFieldPatch) *)

\* both requests are PATCHes of the same row that have succeeded
BothPatched(p, q, op) ==
  /\ req[p].op = op /\ req[q].op = op
  /\ req[p].pc = "Done" /\ req[q].pc = "Done"
  /\ req[p].input[1].id = req[q].input[1].id

C30_PostKeepsBoth ==
  \A p, q \in Procs :
    BothPatched(p, q, "patchPost")
      /\ IsSome(req[p].input[1].title) /\ IsSome(req[q].input[1].content) =>
        /\ posts[req[p].input[1].id[1]].title = req[p].input[1].title[1]
        /\ posts[req[p].input[1].id[1]].content = req[q].input[1].content[1]

C30_UserKeepsBoth ==
  \A p, q \in Procs :
    BothPatched(p, q, "patchUser")
      /\ IsSome(req[p].input[1].name) /\ IsSome(req[q].input[1].email) =>
        /\ users[req[p].input[1].id[1]].name = req[p].input[1].name[1]
        /\ users[req[p].input[1].id[1]].email = req[q].input[1].email[1]

\* C30: when two PATCH use cases on the same post, or the same user, that set
\* different fields interleave at their awaits, the stored row holds both
\* changes once both have completed.
C30_NoLostUpdate == C30_PostKeepsBoth /\ C30_UserKeepsBoth

\* the title was patched first and the content second: the first response
\* still shows the old content, the stored post both new values
C30_Witness ==
  \E p, q \in Procs :
    /\ BothPatched(p, q, "patchPost")
    /\ IsSome(req[p].input[1].title) /\ IsSome(req[q].input[1].content)
    /\ ValueOf(req[p].result[1]).content = "c1"
    /\ posts[req[p].input[1].id[1]].title = "t2"
    /\ posts[req[p].input[1].id[1]].content = "c2"

====
